---- MODULE Spec2Model ----
(***************************************************************************)
(* Model of the console screen buffer (SCREEN_INFORMATION) of              *)
(* src/host/screenInfo.cpp: the registry of screen buffers, the main/alt   *)
(* pairing with its shared output state machine, the viewport, the         *)
(* traditional and the reflowing resize, and the window-resize pipeline.   *)
(***************************************************************************)
EXTENDS Integers, Sequences, FiniteSets, TLC

VARIABLES
    bufs,                 \* id -> SCREEN_INFORMATION object (live or freed)
    ScreenBuffers,        \* g_ciConsoleInformation.ScreenBuffers, head first
    CurrentScreenBuffer,  \* g_ciConsoleInformation.CurrentScreenBuffer (0 = nullptr)
    pipes,                \* id -> output state machine allocated by buffer id
    updatingScrollBars,   \* Flags & CONSOLE_UPDATING_SCROLL_BARS
    scrollMsgs,           \* scroll-bar update messages posted to the window, not yet processed
    pWindow,              \* g_ciConsoleInformation.pWindow is not nullptr
    wrapText,             \* g_ciConsoleInformation.GetWrapText()
    uaf,                  \* the last operation read a field of a destroyed buffer
    last,                 \* the last operation: its name, target, status and input
    pre                   \* the target buffer as it was before the last operation

vars == <<bufs, ScreenBuffers, CurrentScreenBuffer, pipes, updatingScrollBars,
          scrollMsgs, pWindow, wrapText, uaf, last, pre>>

---------------------------------------------------------------------------
(* Bounds of the model *)

MaxBufs == 3

MaxCols == 3

MaxRows == 4

Ids == 1..MaxBufs

---------------------------------------------------------------------------
(* Plain values *)

UNICODE_SPACE == 32

SHORT_MAX == 32767

\* The default fill attribute (ciFill.Attributes) buffers are constructed with
FillAttr == 7

COORD(x, y) == [X |-> x, Y |-> y]

SMALL_RECT(l, t, r, b) == [Left |-> l, Top |-> t, Right |-> r, Bottom |-> b]

RECT(l, t, r, b) == [left |-> l, top |-> t, right |-> r, bottom |-> b]

RECT_WIDTH(rc) == rc.right - rc.left

RECT_HEIGHT(rc) == rc.bottom - rc.top

Min(a, b) == IF a < b THEN a ELSE b

Max(a, b) == IF a > b THEN a ELSE b

Abs(a) == IF a < 0 THEN -a ELSE a

\* C integer division truncates toward zero
CDiv(a, b) == IF a >= 0 THEN a \div b ELSE -((-a) \div b)

\* (USHORT)v of a SHORT v
USHORT(v) == IF v < 0 THEN v + 65536 ELSE v

CalcWindowSizeX(vp) == vp.Right - vp.Left + 1

CalcWindowSizeY(vp) == vp.Bottom - vp.Top + 1

---------------------------------------------------------------------------
(* The text buffer (TEXT_BUFFER_INFO) and its rows, as the screen buffer   *)
(* uses them                                                               *)

BlankRow(cols, attr, id) ==
    [Chars |-> [i \in 1..cols |-> UNICODE_SPACE],
     KAttrs |-> [i \in 1..cols |-> 0],
     Attrs |-> [i \in 1..cols |-> attr],
     Left |-> cols,
     Right |-> 0,
     WrapForced |-> FALSE,
     DoubleBytePadded |-> FALSE,
     sRowId |-> id]

NewTextBuffer(size, attr) ==
    [Rows |-> [i \in 1..size.Y |-> BlankRow(size.X, attr, i - 1)],
     FirstRow |-> 0,
     coordBufferSize |-> size,
     cursor |-> COORD(0, 0),
     cursorVisible |-> TRUE]

\* the index in Rows (1-based) of the row at logical offset y
RowIndexOf(t, y) == ((t.FirstRow + y) % Len(t.Rows)) + 1

GetRowByOffset(t, y) == t.Rows[RowIndexOf(t, y)]

RECURSIVE LastNonSpaceFrom(_, _)
LastNonSpaceFrom(t, y) ==
    LET x == GetRowByOffset(t, y).Right - 1
    IN  IF x < 0 /\ y > 0 THEN LastNonSpaceFrom(t, y - 1)
        ELSE COORD(Max(x, 0), Max(y, 0))

GetLastNonSpaceCharacter(t) == LastNonSpaceFrom(t, t.coordBufferSize.Y - 1)

IncrementCircularBuffer(t) ==
    LET cols == t.coordBufferSize.X
        first == t.FirstRow
        old == t.Rows[first + 1]
    IN  [t EXCEPT !.Rows[first + 1] = BlankRow(cols, FillAttr, old.sRowId),
                  !.FirstRow = IF first + 1 >= t.coordBufferSize.Y THEN 0 ELSE first + 1]

NewlineCursor(t) ==
    LET iFinalRowIndex == t.coordBufferSize.Y - 1
        y == t.cursor.Y + 1
    IN  IF y > iFinalRowIndex
        THEN IncrementCircularBuffer([t EXCEPT !.cursor = COORD(0, iFinalRowIndex)])
        ELSE [t EXCEPT !.cursor = COORD(0, y)]

IncrementCursor(t) ==
    LET iFinalColumnIndex == t.coordBufferSize.X - 1
        x == t.cursor.X + 1
        moved == [t EXCEPT !.cursor.X = x]
    IN  IF x > iFinalColumnIndex
        THEN NewlineCursor([moved EXCEPT !.Rows[RowIndexOf(t, t.cursor.Y)].WrapForced = TRUE])
        ELSE moved

InsertCharacter(t, wch, bKAttr, attr) ==
    LET ri == RowIndexOf(t, t.cursor.Y)
        col == t.cursor.X
        row == t.Rows[ri]
        cols == Len(row.Chars)
        row2 == [row EXCEPT !.Chars[col + 1] = wch,
                            !.KAttrs[col + 1] = bKAttr,
                            !.Attrs = [i \in 1..cols |-> IF i >= col + 1 THEN attr ELSE row.Attrs[i]],
                            !.Right = col + 1]
    IN  IncrementCursor([t EXCEPT !.Rows[ri] = row2])

\* ATTR_ROW::Resize: the final run is extended over added columns, runs past
\* the new width are cut
AttrRowResize(attrs, oldX, newX) ==
    [i \in 1..newX |-> IF i <= Len(attrs) THEN attrs[i]
                       ELSE IF Len(attrs) > 0 THEN attrs[Len(attrs)] ELSE FillAttr]

---------------------------------------------------------------------------
(* Environment of the screen buffer: renderer and window metrics *)

\* g_pRender->GetFontSize(), after GetScreenFontSize's clamp to at least 1
GetScreenFontSize == COORD(2, 2)

g_sHorizontalScrollSize == 1

g_sVerticalScrollSize == 1

---------------------------------------------------------------------------
(* A SCREEN_INFORMATION object *)

\* the object of an id that is not allocated, or has been deleted
FreedBuf ==
    [live |-> FALSE,
     size |-> COORD(0, 0),
     viewport |-> SMALL_RECT(0, 0, 0, 0),
     main |-> 0,
     alt |-> 0,
     fAltWindowChanged |-> FALSE,
     rcAltSavedClientNew |-> RECT(0, 0, 0, 0),
     rcAltSavedClientOld |-> RECT(0, 0, 0, 0),
     pConApi |-> 0,
     pBufferWriter |-> 0,
     pAdapter |-> 0,
     pStateMachine |-> 0,
     Attributes |-> FillAttr,
     tabs |-> <<>>,
     text |-> [Rows |-> <<>>, FirstRow |-> 0, coordBufferSize |-> COORD(0, 0),
               cursor |-> COORD(0, 0), cursorVisible |-> FALSE]]

\* the variant that stores the size it is given
SetScreenBufferSizeAsGiven(b, coordNewBufferSize) ==
    [b EXCEPT !.size = coordNewBufferSize]

SetScreenBufferSize(b, coordNewBufferSize) ==
    [b EXCEPT !.size = COORD(Max(1, coordNewBufferSize.X), Max(1, coordNewBufferSize.Y))]

\* CreateInstance up to the output state machine: the object with its viewport
\* and text buffer; pid is the state machine _InitializeOutputStateMachine builds
NewScreenInformation(coordWindowSize, coordScreenBufferSize, pid) ==
    LET sized == SetScreenBufferSize(FreedBuf, coordScreenBufferSize)
    IN  [sized EXCEPT !.live = TRUE,
                      !.viewport = SMALL_RECT(0, 0, coordWindowSize.X - 1, coordWindowSize.Y - 1),
                      !.text = NewTextBuffer(coordScreenBufferSize, FillAttr),
                      !.pConApi = pid,
                      !.pBufferWriter = pid,
                      !.pAdapter = pid,
                      !.pStateMachine = pid]

_IsAltBuffer(b) == b.main # 0

---------------------------------------------------------------------------
(* Viewport *)

\* Window::SetViewportOrigin, which the active buffer's SetViewportOrigin calls:
\* the window scrolls and stores the new viewport in the buffer
WindowSetViewportOrigin(b, NewWindow) == [b EXCEPT !.viewport = NewWindow]

SetViewportOrigin(b, active, fAbsolute, coordWindowOrigin) ==
    LET vp == b.viewport
        WindowSizeX == CalcWindowSizeX(vp)
        WindowSizeY == CalcWindowSizeY(vp)
        noop == IF ~fAbsolute
                THEN coordWindowOrigin.X = 0 /\ coordWindowOrigin.Y = 0
                ELSE coordWindowOrigin.X = vp.Left /\ coordWindowOrigin.Y = vp.Top
        NewLeft == IF ~fAbsolute THEN vp.Left + coordWindowOrigin.X ELSE coordWindowOrigin.X
        NewTop == IF ~fAbsolute THEN vp.Top + coordWindowOrigin.Y ELSE coordWindowOrigin.Y
        NewWindow == SMALL_RECT(NewLeft, NewTop, NewLeft + WindowSizeX - 1, NewTop + WindowSizeY - 1)
    IN  IF noop THEN [status |-> "SUCCESS", buf |-> b]
        ELSE IF \/ NewWindow.Left < 0
                \/ NewWindow.Top < 0
                \/ NewWindow.Right < 0
                \/ NewWindow.Bottom < 0
                \/ NewWindow.Right >= b.size.X
                \/ NewWindow.Bottom >= b.size.Y
        THEN [status |-> "INVALID_PARAMETER", buf |-> b]
        ELSE IF active
        THEN [status |-> "SUCCESS", buf |-> WindowSetViewportOrigin(b, NewWindow)]
        ELSE [status |-> "SUCCESS", buf |-> [b EXCEPT !.viewport = NewWindow]]

SetViewportRect(b, rcNewViewport) ==
    IF rcNewViewport = b.viewport THEN b
    ELSE
    LET r1 == IF rcNewViewport.Left < 0
              THEN [rcNewViewport EXCEPT !.Right = rcNewViewport.Right - rcNewViewport.Left,
                                         !.Left = 0]
              ELSE rcNewViewport
        r2 == IF r1.Top < 0
              THEN [r1 EXCEPT !.Bottom = r1.Bottom - r1.Top, !.Top = 0]
              ELSE r1
        r3 == IF r2.Right >= b.size.X THEN [r2 EXCEPT !.Right = b.size.X] ELSE r2
        r4 == IF r3.Bottom >= b.size.Y THEN [r3 EXCEPT !.Bottom = b.size.Y] ELSE r3
    IN  [b EXCEPT !.viewport = r4]

\* Selection::GetValidAreaBoundaries: the end of the valid text is the row of
\* the cursor (no pending input line)
GetValidAreaBoundariesEndY(b) == b.text.cursor.Y

\* the variant that stops at the buffer's right edge and leaves the left
\* edge where it is
ViewportResizeXToEdge(vp, DeltaX, bufX, fResizeFromLeft) ==
    IF fResizeFromLeft
    THEN [vp EXCEPT !.Left = Max(vp.Left - DeltaX, 0)]
    ELSE [vp EXCEPT !.Right = Min(vp.Right + DeltaX, bufX - 1)]

\* the horizontal resize of the viewport (lines 972-1002)
ViewportResizeX(vp, DeltaX, bufX, fResizeFromLeft) ==
    IF fResizeFromLeft
    THEN IF vp.Left - DeltaX >= 0
         THEN [vp EXCEPT !.Left = vp.Left - DeltaX]
         ELSE [vp EXCEPT !.Left = 0, !.Right = vp.Right + Abs(vp.Left - DeltaX)]
    ELSE IF vp.Right + DeltaX <= bufX - 1
         THEN [vp EXCEPT !.Right = vp.Right + DeltaX]
         ELSE [vp EXCEPT !.Right = bufX - 1,
                         !.Left = vp.Left - ((vp.Right + DeltaX) - (bufX - 1))]

\* the vertical resize of the viewport (lines 1004-1078); sEndY is the last
\* row of the valid text area
ViewportResizeY(vp, DeltaY, bufY, sEndY, fResizeFromTop) ==
    IF fResizeFromTop
    THEN IF vp.Top - DeltaY >= 0
         THEN IF vp.Top > 0
              THEN [vp EXCEPT !.Top = vp.Top - DeltaY]
              ELSE [vp EXCEPT !.Bottom = vp.Bottom + DeltaY]
         ELSE [vp EXCEPT !.Top = 0, !.Bottom = vp.Bottom + Abs(vp.Top - DeltaY)]
    ELSE IF vp.Bottom + DeltaY <= bufY - 1
         THEN IF vp.Bottom + DeltaY < sEndY
              THEN IF vp.Top - DeltaY < 0
                   THEN [vp EXCEPT !.Top = 0, !.Bottom = vp.Bottom + (0 - (vp.Top - DeltaY))]
                   ELSE [vp EXCEPT !.Top = vp.Top - DeltaY]
              ELSE [vp EXCEPT !.Bottom = vp.Bottom + DeltaY]
         ELSE [vp EXCEPT !.Bottom = bufY - 1,
                         !.Top = vp.Top - ((vp.Bottom + DeltaY) - (bufY - 1))]

\* a viewport hanging over the left or the top edge is moved in (lines 1080-1091)
ViewportShiftIn(vp) ==
    [Left |-> IF vp.Left < 0 THEN 0 ELSE vp.Left,
     Right |-> IF vp.Left < 0 THEN vp.Right - vp.Left ELSE vp.Right,
     Top |-> IF vp.Top < 0 THEN 0 ELSE vp.Top,
     Bottom |-> IF vp.Top < 0 THEN vp.Bottom - vp.Top ELSE vp.Bottom]

_InternalSetViewportSize(b, coordSize, fResizeFromTop, fResizeFromLeft) ==
    LET DeltaX == coordSize.X - CalcWindowSizeX(b.viewport)
        DeltaY == coordSize.Y - CalcWindowSizeY(b.viewport)
        vp == ViewportShiftIn(
                  ViewportResizeY(
                      ViewportResizeX(b.viewport, DeltaX, b.size.X, fResizeFromLeft),
                      DeltaY, b.size.Y, GetValidAreaBoundariesEndY(b), fResizeFromTop))
    IN  \* the right and the bottom edge are kept inside the buffer (lines 1093-1095)
        [b EXCEPT !.viewport = [vp EXCEPT !.Right = Min(vp.Right, b.size.X - 1),
                                          !.Bottom = Min(vp.Bottom, b.size.Y - 1)]]

_AdjustViewportSize(b, rcClientNew, rcClientOld, coordSize) ==
    LET fResizeFromLeft == rcClientNew.left # rcClientOld.left /\ rcClientNew.right = rcClientOld.right
        fResizeFromTop == rcClientNew.top # rcClientOld.top /\ rcClientNew.bottom = rcClientOld.bottom
    IN  _InternalSetViewportSize(b, coordSize, fResizeFromLeft, fResizeFromTop)

SetViewportSize(b, coordSize) == _InternalSetViewportSize(b, coordSize, FALSE, FALSE)

\* the variant that scrolls the cursor's position to the viewport's origin
MakeCursorVisibleAtOrigin(b, active, CursorPosition) ==
    LET vp == b.viewport
    IN  IF /\ vp.Left <= CursorPosition.X /\ CursorPosition.X <= vp.Right
           /\ vp.Top <= CursorPosition.Y /\ CursorPosition.Y <= vp.Bottom
        THEN b
        ELSE SetViewportOrigin(b, active, FALSE,
                               COORD(CursorPosition.X - vp.Left,
                                     CursorPosition.Y - vp.Top)).buf

MakeCursorVisible(b, active, CursorPosition) ==
    LET vp == b.viewport
        ox == IF CursorPosition.X > vp.Right THEN CursorPosition.X - vp.Right
              ELSE IF CursorPosition.X < vp.Left THEN CursorPosition.X - vp.Left
              ELSE 0
        oy == IF CursorPosition.Y > vp.Bottom THEN CursorPosition.Y - vp.Bottom
              ELSE IF CursorPosition.Y < vp.Top THEN CursorPosition.Y - vp.Top
              ELSE 0
    IN  IF ox # 0 \/ oy # 0
        THEN SetViewportOrigin(b, active, FALSE, COORD(ox, oy)).buf
        ELSE b

\* the inclusive final positions of the buffer in each direction
GetScreenEdges(b) == SMALL_RECT(0, 0, b.size.X - 1, b.size.Y - 1)

\* ClipToScreenBuffer(SMALL_RECT*)
ClipToScreenBuffer(b, srClip) ==
    LET srEdges == GetScreenEdges(b)
    IN  SMALL_RECT(Max(srClip.Left, srEdges.Left),
                   Max(srClip.Top, srEdges.Top),
                   Min(srClip.Right, srEdges.Right),
                   Min(srClip.Bottom, srEdges.Bottom))

\* ClipToScreenBuffer(COORD*)
ClipToScreenBufferCoord(b, coordClip) ==
    LET srEdges == GetScreenEdges(b)
    IN  COORD(Min(Max(coordClip.X, srEdges.Left), srEdges.Right),
              Min(Max(coordClip.Y, srEdges.Top), srEdges.Bottom))

---------------------------------------------------------------------------
(* Geometry *)

\* the variant that looks at each direction by itself
s_CalculateScrollbarVisibilityEach(rcClientArea, coordBufferSize, coordFontSize) ==
    [h |-> coordBufferSize.X * coordFontSize.X > RECT_WIDTH(rcClientArea),
     v |-> coordBufferSize.Y * coordFontSize.Y > RECT_HEIGHT(rcClientArea)]

s_CalculateScrollbarVisibility(rcClientArea, coordBufferSize, coordFontSize) ==
    LET cx == RECT_WIDTH(rcClientArea)
        cy == RECT_HEIGHT(rcClientArea)
        bx == coordBufferSize.X * coordFontSize.X
        by == coordBufferSize.Y * coordFontSize.Y
    IN  IF bx > cx
        THEN [h |-> TRUE, v |-> by > cy - g_sHorizontalScrollSize]
        ELSE IF by > cy
        THEN [h |-> bx > cx - g_sVerticalScrollSize, v |-> TRUE]
        ELSE [h |-> FALSE, v |-> FALSE]

\* the characters that fit into a client area beside the scroll bars a
\* buffer of size coordBuffer needs, for a font of size coordFontSize
\* (lines 822-845, and the same computation at lines 933-954)
ClientCharacters(rcClient, coordBuffer, coordFontSize) ==
    LET vis == s_CalculateScrollbarVisibility(rcClient, coordBuffer, coordFontSize)
        cx == RECT_WIDTH(rcClient) - (IF vis.v THEN g_sVerticalScrollSize ELSE 0)
        cy == RECT_HEIGHT(rcClient) - (IF vis.h THEN g_sHorizontalScrollSize ELSE 0)
    IN  COORD(CDiv(cx, coordFontSize.X), CDiv(cy, coordFontSize.Y))

_AdjustScreenBufferHelper(rcClientNew, coordBufferOld) ==
    ClientCharacters(rcClientNew, coordBufferOld, GetScreenFontSize)

_CalculateViewportSize(b, rcClientArea) ==
    LET font == GetScreenFontSize
        vis == s_CalculateScrollbarVisibility(rcClientArea, b.size, font)
        cx == RECT_WIDTH(rcClientArea) - (IF vis.v THEN g_sVerticalScrollSize ELSE 0)
        cy == RECT_HEIGHT(rcClientArea) - (IF vis.h THEN g_sHorizontalScrollSize ELSE 0)
    IN  COORD(CDiv(cx, font.X), CDiv(cy, font.Y))

\* the geometry of ProcessResizeWindow on a main buffer, for any font: the
\* two passes of _AdjustScreenBuffer (lines 866-899) that choose the buffer
\* size new, the size final the buffer has once ResizeScreenBuffer has
\* stored it (lines 119-125), and the scroll bars and the viewport size
\* _CalculateViewportSize computes for that buffer (lines 931-955)
ResizeGeometry(rcClientNew, coordBufferSizeOld, coordFontSize, fWrapText) ==
    LET chars1 == ClientCharacters(rcClientNew, coordBufferSizeOld, coordFontSize)
        fixed == IF fWrapText THEN [coordBufferSizeOld EXCEPT !.X = chars1.X]
                 ELSE coordBufferSizeOld
        chars2 == ClientCharacters(rcClientNew, fixed, coordFontSize)
        new == COORD(Max(chars2.X, fixed.X), Max(chars2.Y, fixed.Y))
        final == SetScreenBufferSize([size |-> coordBufferSizeOld], new).size
    IN  [chars1 |-> chars1,
         vis2 |-> s_CalculateScrollbarVisibility(rcClientNew, fixed, coordFontSize),
         chars2 |-> chars2,
         new |-> new,
         final |-> final,
         vis3 |-> s_CalculateScrollbarVisibility(rcClientNew, final, coordFontSize),
         viewport |-> ClientCharacters(rcClientNew, final, coordFontSize)]

---------------------------------------------------------------------------
(* Traditional resize *)

\* the ROWs array after its resize (lines 1454-1505): rotated so that
\* TopRowIndex is row 0, new rows appended; TopRow is the new top row of the
\* screen buffer, which keeps the cursor's row
TraditionalRowArray(b, coordNewScreenSize) ==
    LET t == b.text
        old == b.size
        new == coordNewScreenSize
        TopRow == IF new.Y <= t.cursor.Y THEN t.cursor.Y - new.Y + 1 ELSE 0
        TopRowIndex == (t.FirstRow + TopRow) % old.Y
        NumToCopy == Min(old.Y - TopRowIndex, new.Y)
        NumToCopy2 == IF TopRowIndex # 0 /\ NumToCopy # new.Y
                      THEN Min(TopRowIndex, new.Y - NumToCopy)
                      ELSE 0
    IN  [i \in 1..new.Y |->
            IF i <= NumToCopy THEN t.Rows[TopRowIndex + i]
            ELSE IF i <= NumToCopy + NumToCopy2 THEN t.Rows[i - NumToCopy]
            ELSE BlankRow(new.X, b.Attributes, i - 1)]

\* one row given its place in the new flat storage (lines 1510-1538)
TraditionalReallocRow(row, i, oldX, newX) ==
    LET LimitX == Min(newX, oldX)
    IN  [row EXCEPT
            !.Chars = [j \in 1..newX |-> IF j <= LimitX THEN row.Chars[j] ELSE UNICODE_SPACE],
            !.KAttrs = [j \in 1..newX |-> IF j <= LimitX THEN row.KAttrs[j] ELSE 0],
            !.Right = IF row.Right > newX THEN newX ELSE row.Right,
            !.sRowId = i]

\* a row past the old rows (lines 1540-1564)
TraditionalEmptyRow(row, i, newX) ==
    [row EXCEPT
        !.Chars = [j \in 1..newX |-> UNICODE_SPACE],
        !.KAttrs = [j \in 1..newX |-> 0],
        !.Left = newX,
        !.Right = 0,
        !.sRowId = i]

ResizeTraditional(b, coordNewScreenSize) ==
    IF USHORT(coordNewScreenSize.X) >= SHORT_MAX \/ USHORT(coordNewScreenSize.Y) >= SHORT_MAX
    THEN [status |-> "INVALID_PARAMETER", buf |-> b]
    ELSE
    LET t == b.text
        old == b.size
        new == coordNewScreenSize
        LimitY == Min(new.Y, old.Y)
        Rows1 == IF new.Y # old.Y THEN TraditionalRowArray(b, new) ELSE t.Rows
        First1 == IF new.Y # old.Y THEN 0 ELSE t.FirstRow
        Rows2 == [i \in 1..Len(Rows1) |->
                    IF i <= LimitY
                    THEN TraditionalReallocRow(Rows1[i], i - 1, old.X, new.X)
                    ELSE TraditionalEmptyRow(Rows1[i], i - 1, new.X)]
        Rows3 == IF new.X # old.X
                 THEN [i \in 1..Len(Rows2) |->
                        IF i <= LimitY
                        THEN [Rows2[i] EXCEPT !.Attrs = AttrRowResize(Rows2[i].Attrs, old.X, new.X)]
                        ELSE Rows2[i]]
                 ELSE Rows2
    IN  [status |-> "SUCCESS",
         buf |-> [b EXCEPT !.text.Rows = Rows3,
                           !.text.FirstRow = First1,
                           !.text.coordBufferSize = new]]

---------------------------------------------------------------------------
(* Reflowing resize *)

\* the "right" of an old row: one past its last copied column
ReflowRight(pRow, cOldColsTotal) ==
    IF pRow.WrapForced
    THEN IF pRow.DoubleBytePadded THEN cOldColsTotal - 1 ELSE cOldColsTotal
    ELSE pRow.Right

\* the inner loop: columns iOldCol .. iRight-1 of the old row are reprinted
RECURSIVE ReflowColumns(_, _, _, _, _, _)
ReflowColumns(st, pRow, iOldCol, iRight, iOldRow, cOldCursorPos) ==
    IF iOldCol >= iRight THEN st
    ELSE
    LET atCursor == iOldCol = cOldCursorPos.X /\ iOldRow = cOldCursorPos.Y
        st1 == IF atCursor
               THEN [st EXCEPT !.pos = st.t.cursor, !.found = TRUE]
               ELSE st
        st2 == [st1 EXCEPT !.t = InsertCharacter(st1.t, pRow.Chars[iOldCol + 1],
                                                 pRow.KAttrs[iOldCol + 1],
                                                 pRow.Attrs[iOldCol + 1])]
    IN  ReflowColumns(st2, pRow, iOldCol + 1, iRight, iOldRow, cOldCursorPos)

\* the outer loop: rows iOldRow .. cOldRowsTotal-1 of the old buffer
RECURSIVE ReflowRows(_, _, _, _, _, _)
ReflowRows(st, told, iOldRow, cOldRowsTotal, cOldColsTotal, cOldCursorPos) ==
    IF iOldRow >= cOldRowsTotal THEN st
    ELSE
    LET pRow == GetRowByOffset(told, iOldRow)
        iRight == ReflowRight(pRow, cOldColsTotal)
        st1 == ReflowColumns(st, pRow, 0, iRight, iOldRow, cOldCursorPos)
        hardBreak == iRight < cOldColsTotal /\ ~pRow.WrapForced
        st2 == IF hardBreak /\ iRight = cOldCursorPos.X /\ iOldRow = cOldCursorPos.Y
               THEN [st1 EXCEPT !.pos = st1.t.cursor, !.found = TRUE]
               ELSE st1
        st3 == IF hardBreak /\ iOldRow < cOldRowsTotal - 1
               THEN [st2 EXCEPT !.t = NewlineCursor(st2.t)]
               ELSE st2
    IN  ReflowRows(st3, told, iOldRow + 1, cOldRowsTotal, cOldColsTotal, cOldCursorPos)

\* the loop over iNewlines (lines 1362-1369)
RECURSIVE RepeatNewlineCursor(_, _)
RepeatNewlineCursor(n, t) ==
    IF n <= 0 THEN t ELSE RepeatNewlineCursor(n - 1, NewlineCursor(t))

\* the loop over iIncrements (lines 1370-1380)
RECURSIVE RepeatIncrementCursor(_, _)
RepeatIncrementCursor(n, t) ==
    IF n <= 0 THEN t ELSE RepeatIncrementCursor(n - 1, IncrementCursor(t))

\* the cursor of the new buffer when the old cursor was past the last character
\* (lines 1335-1381)
ReflowAdvanceCursor(tnew, told, cOldCursorPos, cOldLastChar, cNewLastChar) ==
    LET iNewlines0 == cOldCursorPos.Y - cOldLastChar.Y
        iIncrements == cOldCursorPos.X - cOldLastChar.X
        iNewlines == IF GetRowByOffset(tnew, cNewLastChar.Y).WrapForced
                     THEN Max(iNewlines0 - 1, 0)
                     ELSE IF GetRowByOffset(told, cOldLastChar.Y).WrapForced
                     THEN Max(iNewlines0 - 1, 0)
                     ELSE iNewlines0
    IN  RepeatIncrementCursor(iIncrements - 1, RepeatNewlineCursor(iNewlines, tnew))

\* the new text buffer once the old rows are reprinted into it (lines 1324-1382)
ReflowCursor(st, told, cOldCursorPos, cOldLastChar) ==
    IF st.found
    THEN [st.t EXCEPT !.cursorVisible = told.cursorVisible, !.cursor = st.pos]
    ELSE ReflowAdvanceCursor([st.t EXCEPT !.cursorVisible = told.cursorVisible], told,
                             cOldCursorPos, cOldLastChar, GetLastNonSpaceCharacter(st.t))

\* the viewport follows the cursor and the new text buffer takes the place of
\* the old one (lines 1383-1407)
ReflowInstall(b, active, tnew) ==
    LET sCursorHeightInViewportBefore == b.text.cursor.Y - b.viewport.Top
        sCursorHeightInViewportAfter == tnew.cursor.Y - b.viewport.Top
        moved == SetViewportOrigin(b, active, FALSE,
                    COORD(0, sCursorHeightInViewportAfter - sCursorHeightInViewportBefore)).buf
    IN  [status |-> "SUCCESS", buf |-> [moved EXCEPT !.text = tnew]]

ResizeWithReflow(b, active, coordNewScreenSize) ==
    IF USHORT(coordNewScreenSize.X) >= SHORT_MAX \/ USHORT(coordNewScreenSize.Y) >= SHORT_MAX
    THEN [status |-> "INVALID_PARAMETER", buf |-> b]
    ELSE
    LET told == b.text
        pNewBuffer == NewTextBuffer(coordNewScreenSize, b.Attributes)
        cOldCursorPos == told.cursor
        cOldLastChar == GetLastNonSpaceCharacter(told)
        cOldRowsTotal == cOldLastChar.Y + 1
        cOldColsTotal == b.size.X
    IN  ReflowInstall(b, active,
            ReflowCursor(
                ReflowRows([t |-> pNewBuffer, found |-> FALSE, pos |-> COORD(0, 0)],
                           told, 0, cOldRowsTotal, cOldColsTotal, cOldCursorPos),
                told, cOldCursorPos, cOldLastChar))

---------------------------------------------------------------------------
(* The console's global state, as the operations below pass it along *)

World ==
    [bufs |-> bufs,
     ScreenBuffers |-> ScreenBuffers,
     Current |-> CurrentScreenBuffer,
     pipes |-> pipes,
     updating |-> updatingScrollBars,
     msgs |-> scrollMsgs,
     window |-> pWindow,
     uaf |-> FALSE,
     status |-> "SUCCESS"]

\* an output state machine that is not allocated
FreedPipe ==
    [StateMachine |-> FALSE, Adapter |-> FALSE, BufferWriter |-> FALSE, ConApi |-> FALSE,
     conApiTarget |-> 0, writerTarget |-> 0]

IsActiveScreenBuffer(w, id) == w.Current = id

\* ::SetActiveScreenBuffer of the host's output module
SetActiveScreenBuffer(w, id) == [w EXCEPT !.Current = id, !.status = "SUCCESS"]

\* the flag is set before the window is looked for (lines 567-573)
UpdateScrollBars(w, id) ==
    IF ~IsActiveScreenBuffer(w, id) THEN w
    ELSE IF w.updating THEN w
    ELSE [w EXCEPT !.updating = TRUE, !.msgs = IF w.window THEN w.msgs + 1 ELSE w.msgs]

InternalUpdateScrollBars(w, id) == [w EXCEPT !.updating = FALSE]

---------------------------------------------------------------------------
(* Resizing the screen buffer *)

\* the buffer takes its new size once its text buffer is resized (lines 1616-1645);
\* r is the outcome of the resize of the text buffer
ResizeScreenBufferFinish(w, id, coordNewScreenSize, fDoScrollBarUpdate, imeOk, r) ==
    IF r.status # "SUCCESS"
    THEN [w EXCEPT !.bufs[id] = r.buf, !.status = r.status]
    ELSE
    LET sized == SetScreenBufferSize(r.buf, coordNewScreenSize)
        w2 == [w EXCEPT !.bufs[id] = [sized EXCEPT !.text.coordBufferSize = sized.size]]
    IN  IF ~imeOk THEN [w2 EXCEPT !.status = "INVALID_HANDLE"]
        ELSE [(IF fDoScrollBarUpdate THEN UpdateScrollBars(w2, id) ELSE w2)
                 EXCEPT !.status = "SUCCESS"]

ResizeScreenBuffer(w, id, coordNewScreenSize, fDoScrollBarUpdate, imeOk) ==
    ResizeScreenBufferFinish(w, id, coordNewScreenSize, fDoScrollBarUpdate, imeOk,
        IF wrapText
        THEN ResizeWithReflow(w.bufs[id], IsActiveScreenBuffer(w, id), coordNewScreenSize)
        ELSE ResizeTraditional(w.bufs[id], coordNewScreenSize))

\* ResizeTraditional when AttrRow.Resize fails for ROW number row
\* (lines 1574-1586): the rows before it have their attributes resized, the
\* text buffer is resized already
TraditionalAttrResizeFailed(b, coordNewScreenSize, row) ==
    LET done == ResizeTraditional(b, coordNewScreenSize).buf
        before == IF coordNewScreenSize.Y # b.size.Y
                  THEN TraditionalRowArray(b, coordNewScreenSize)
                  ELSE b.text.Rows
    IN  [status |-> "NO_MEMORY",
         buf |-> [done EXCEPT !.text.Rows =
                    [i \in 1..Len(done.text.Rows) |->
                        IF i - 1 >= row /\ i <= Min(coordNewScreenSize.Y, b.size.Y)
                        THEN [done.text.Rows[i] EXCEPT !.Attrs = before[i].Attrs]
                        ELSE done.text.Rows[i]]]]

\* ResizeTraditional when the allocation alloc fails; an allocation the
\* resize does not make cannot fail
ResizeTraditionalNoMemory(b, coordNewScreenSize, alloc, row) ==
    IF USHORT(coordNewScreenSize.X) >= SHORT_MAX \/ USHORT(coordNewScreenSize.Y) >= SHORT_MAX
    THEN ResizeTraditional(b, coordNewScreenSize)
    ELSE IF alloc \in {"TextRows", "TextRowsA"}
    THEN [status |-> "NO_MEMORY", buf |-> b]
    ELSE IF alloc = "Temp" /\ coordNewScreenSize.Y # b.size.Y
    THEN [status |-> "NO_MEMORY", buf |-> b]
    ELSE IF alloc = "AttrRow.Initialize" /\ coordNewScreenSize.Y > b.size.Y
    THEN [status |-> "NO_MEMORY", buf |-> b]
    ELSE IF /\ alloc = "AttrRow.Resize"
            /\ coordNewScreenSize.X # b.size.X
            /\ row < Min(coordNewScreenSize.Y, b.size.Y)
    THEN TraditionalAttrResizeFailed(b, coordNewScreenSize, row)
    ELSE ResizeTraditional(b, coordNewScreenSize)

\* ResizeWithReflow when an allocation of the new text buffer fails: the new
\* buffer is installed only when everything succeeded (lines 1238, 1383)
ResizeWithReflowNoMemory(b, active, coordNewScreenSize, alloc) ==
    IF USHORT(coordNewScreenSize.X) >= SHORT_MAX \/ USHORT(coordNewScreenSize.Y) >= SHORT_MAX
    THEN ResizeWithReflow(b, active, coordNewScreenSize)
    ELSE IF alloc = "Reflow"
    THEN [status |-> "NO_MEMORY", buf |-> b]
    ELSE ResizeWithReflow(b, active, coordNewScreenSize)

\* ResizeScreenBuffer when the allocation alloc of the resize fails
ResizeScreenBufferNoMemory(w, id, coordNewScreenSize, fDoScrollBarUpdate, alloc, row) ==
    ResizeScreenBufferFinish(w, id, coordNewScreenSize, fDoScrollBarUpdate, TRUE,
        IF wrapText
        THEN ResizeWithReflowNoMemory(w.bufs[id], IsActiveScreenBuffer(w, id),
                                      coordNewScreenSize, alloc)
        ELSE ResizeTraditionalNoMemory(w.bufs[id], coordNewScreenSize, alloc, row))

\* the buffer size _AdjustScreenBuffer asks for (lines 862-899)
AdjustedBufferSize(w, id, rcClientNew) ==
    LET b == w.bufs[id]
        coordBufferSizeOld == IF _IsAltBuffer(b) THEN w.bufs[b.main].size ELSE b.size
        chars1 == _AdjustScreenBufferHelper(rcClientNew, coordBufferSizeOld)
        fixed == IF wrapText
                 THEN [coordBufferSizeOld EXCEPT !.X = chars1.X]
                 ELSE coordBufferSizeOld
        chars2 == _AdjustScreenBufferHelper(rcClientNew, fixed)
    IN  IF _IsAltBuffer(b)
        THEN chars2
        ELSE COORD(Max(chars2.X, fixed.X), Max(chars2.Y, fixed.Y))

\* the cursor is hidden while the buffer is resized (lines 903-917)
ResizeWithCursorHidden(w, id, coordBufferSizeNew) ==
    [ResizeScreenBuffer([w EXCEPT !.bufs[id].text.cursorVisible = FALSE],
                        id, coordBufferSizeNew, FALSE, TRUE)
        EXCEPT !.bufs[id].text.cursorVisible = TRUE]

_AdjustScreenBuffer(w, id, rcClientNew) ==
    LET b == w.bufs[id]
        coordBufferSizeOld == IF _IsAltBuffer(b) THEN w.bufs[b.main].size ELSE b.size
    IN  IF coordBufferSizeOld # AdjustedBufferSize(w, id, rcClientNew)
        THEN ResizeWithCursorHidden(w, id, AdjustedBufferSize(w, id, rcClientNew))
        ELSE w

\* an alt buffer leaves the new client area with its main (lines 774-781)
SaveAltWindowChange(w, id, rcClientNew, rcClientOld) ==
    LET b == w.bufs[id]
    IN  IF _IsAltBuffer(b)
        THEN [w EXCEPT !.bufs[b.main].fAltWindowChanged = TRUE,
                       !.bufs[b.main].rcAltSavedClientNew = rcClientNew,
                       !.bufs[b.main].rcAltSavedClientOld = rcClientOld]
        ELSE w

\* the viewport takes the size the client area gives it (lines 786-791)
AdjustViewport(w, id, rcClientNew, rcClientOld) ==
    [w EXCEPT !.bufs[id] = _AdjustViewportSize(w.bufs[id], rcClientNew, rcClientOld,
                                _CalculateViewportSize(w.bufs[id], rcClientNew))]

ProcessResizeWindow(w, id, rcClientNew, rcClientOld) ==
    [UpdateScrollBars(
        AdjustViewport(
            _AdjustScreenBuffer(SaveAltWindowChange(w, id, rcClientNew, rcClientOld),
                                id, rcClientNew),
            id, rcClientNew, rcClientOld),
        id)
        EXCEPT !.status = "SUCCESS"]

\* the cursor's visibility is set as asked; its size is not part of the state
SetCursorInformation(b, Size, Visible) ==
    [status |-> "SUCCESS", buf |-> [b EXCEPT !.text.cursorVisible = Visible]]

SetCursorPosition(b, Position) ==
    IF \/ Position.X >= b.size.X
       \/ Position.Y >= b.size.Y
       \/ Position.X < 0
       \/ Position.Y < 0
    THEN [status |-> "INVALID_PARAMETER", buf |-> b]
    ELSE [status |-> "SUCCESS", buf |-> [b EXCEPT !.text.cursor = Position]]

---------------------------------------------------------------------------
(* Tab stops: the list _ptsTabs, head first, as the sequence of its columns *)

\* the search of AddTabStop for the stop to insert after (lines 2036-2054):
\* prev is the position of the stop looked at; fSearching stays TRUE when a
\* stop at sColumn is found
RECURSIVE TabStopSearch(_, _, _)
TabStopSearch(tabs, prev, sColumn) ==
    IF tabs[prev] = sColumn
    THEN [fSearching |-> TRUE, prev |-> prev]
    ELSE IF prev = Len(tabs) \/ tabs[prev + 1] > sColumn
    THEN [fSearching |-> FALSE, prev |-> prev]
    ELSE TabStopSearch(tabs, prev + 1, sColumn)

\* the list with a stop at sColumn linked in after position prev
InsertTabStopAfter(tabs, prev, sColumn) ==
    SubSeq(tabs, 1, prev) \o <<sColumn>> \o SubSeq(tabs, prev + 1, Len(tabs))

\* the variant that never walks the list and links the new stop after the head
AddTabStopAfterHead(b, sColumn, fAllocated) ==
    IF b.tabs = <<>> \/ b.tabs[1] > sColumn
    THEN IF fAllocated
         THEN [status |-> "SUCCESS", buf |-> [b EXCEPT !.tabs = <<sColumn>> \o b.tabs]]
         ELSE [status |-> "NO_MEMORY", buf |-> [b EXCEPT !.tabs = <<>>]]
    ELSE IF b.tabs[1] = sColumn \/ ~fAllocated
    THEN [status |-> "NO_MEMORY", buf |-> b]
    ELSE [status |-> "SUCCESS",
          buf |-> [b EXCEPT !.tabs = InsertTabStopAfter(b.tabs, 1, sColumn)]]

\* the variant that does not look for a stop at sColumn and links the new
\* stop after the last stop at or before sColumn
AddTabStopAgain(b, sColumn, fAllocated) ==
    IF b.tabs = <<>> \/ b.tabs[1] > sColumn
    THEN IF fAllocated
         THEN [status |-> "SUCCESS", buf |-> [b EXCEPT !.tabs = <<sColumn>> \o b.tabs]]
         ELSE [status |-> "NO_MEMORY", buf |-> [b EXCEPT !.tabs = <<>>]]
    ELSE IF ~fAllocated
    THEN [status |-> "NO_MEMORY", buf |-> b]
    ELSE [status |-> "SUCCESS",
          buf |-> [b EXCEPT !.tabs = InsertTabStopAfter(b.tabs,
                        Cardinality({i \in 1..Len(b.tabs) : b.tabs[i] <= sColumn}),
                        sColumn)]]

\* AddTabStop (lines 2021-2072); fAllocated: new TabStop() gave an object.
\* Status starts as STATUS_NO_MEMORY and is assigned only after an allocation;
\* at the head the result of new is stored in _ptsTabs before it is tested.
AddTabStop(b, sColumn, fAllocated) ==
    IF b.tabs = <<>> \/ b.tabs[1] > sColumn
    THEN IF fAllocated
         THEN [status |-> "SUCCESS", buf |-> [b EXCEPT !.tabs = <<sColumn>> \o b.tabs]]
         ELSE [status |-> "NO_MEMORY", buf |-> [b EXCEPT !.tabs = <<>>]]
    ELSE LET found == TabStopSearch(b.tabs, 1, sColumn)
         IN  IF found.fSearching \/ ~fAllocated
             THEN [status |-> "NO_MEMORY", buf |-> b]
             ELSE [status |-> "SUCCESS",
                   buf |-> [b EXCEPT !.tabs = InsertTabStopAfter(b.tabs, found.prev, sColumn)]]

\* ClearTabStops (lines 2080-2090)
ClearTabStops(b) == [b EXCEPT !.tabs = <<>>]

\* ClearTabStop (lines 2098-2142): every stop at sColumn is unlinked
RECURSIVE ClearTabStopFrom(_, _, _)
ClearTabStopFrom(tabs, curr, sColumn) ==
    IF curr > Len(tabs) THEN tabs
    ELSE IF tabs[curr] = sColumn
    THEN ClearTabStopFrom(SubSeq(tabs, 1, curr - 1) \o SubSeq(tabs, curr + 1, Len(tabs)),
                          curr, sColumn)
    ELSE ClearTabStopFrom(tabs, curr + 1, sColumn)

AreTabsSet(b) == b.tabs # <<>>

ClearTabStop(b, sColumn) ==
    IF AreTabsSet(b)
    THEN [b EXCEPT !.tabs = ClearTabStopFrom(b.tabs, 1, sColumn)]
    ELSE b

\* the walk of GetForwardTab (lines 2162-2173): the position of the first stop
\* the cursor column is not at or past, Len(tabs) + 1 for nullptr
RECURSIVE ForwardTabStop(_, _, _)
ForwardTabStop(tabs, ptsNext, x) ==
    IF ptsNext <= Len(tabs) /\ x >= tabs[ptsNext]
    THEN ForwardTabStop(tabs, ptsNext + 1, x)
    ELSE ptsNext

\* the variant that stops at a stop in the cursor's own column
GetForwardTabAtOrAfter(b, cCurrCursorPos) ==
    LET sWidth == b.size.X - 1
        after == {i \in 1..Len(b.tabs) : b.tabs[i] >= cCurrCursorPos.X}
    IN  IF cCurrCursorPos.X = sWidth
        THEN COORD(0, cCurrCursorPos.Y + 1)
        ELSE IF after = {}
        THEN COORD(sWidth, cCurrCursorPos.Y)
        ELSE COORD(b.tabs[CHOOSE i \in after : \A j \in after : i <= j], cCurrCursorPos.Y)

\* GetForwardTab (lines 2151-2184)
GetForwardTab(b, cCurrCursorPos) ==
    LET sWidth == b.size.X - 1
        ptsNext == ForwardTabStop(b.tabs, 1, cCurrCursorPos.X)
    IN  IF cCurrCursorPos.X = sWidth
        THEN COORD(0, cCurrCursorPos.Y + 1)
        ELSE IF ptsNext > Len(b.tabs)
        THEN COORD(sWidth, cCurrCursorPos.Y)
        ELSE COORD(b.tabs[ptsNext], cCurrCursorPos.Y)

\* the loop of GetReverseTab (lines 2205-2210): the position of the last stop
\* whose successor the cursor column is not past
RECURSIVE ReverseTabStop(_, _, _)
ReverseTabStop(tabs, ptsCurr, x) ==
    IF ptsCurr < Len(tabs) /\ x > tabs[ptsCurr + 1]
    THEN ReverseTabStop(tabs, ptsCurr + 1, x)
    ELSE ptsCurr

\* the variant that stops at a stop in the cursor's own column
GetReverseTabAtOrBefore(b, cCurrCursorPos) ==
    LET before == {i \in 1..Len(b.tabs) : b.tabs[i] <= cCurrCursorPos.X}
    IN  IF cCurrCursorPos.X = 0 \/ before = {}
        THEN COORD(0, cCurrCursorPos.Y)
        ELSE COORD(b.tabs[CHOOSE i \in before : \A j \in before : i >= j], cCurrCursorPos.Y)

\* GetReverseTab (lines 2193-2215)
GetReverseTab(b, cCurrCursorPos) ==
    IF \/ cCurrCursorPos.X = 0
       \/ b.tabs = <<>>
       \/ b.tabs[1] >= cCurrCursorPos.X
    THEN COORD(0, cCurrCursorPos.Y)
    ELSE COORD(b.tabs[ReverseTabStop(b.tabs, 1, cCurrCursorPos.X)], cCurrCursorPos.Y)

---------------------------------------------------------------------------
(* The registry of screen buffers and the output state machine *)

\* the address the allocator gives the next SCREEN_INFORMATION (0: none left)
FreeId(w) ==
    IF \E i \in Ids : ~w.bufs[i].live
    THEN CHOOSE i \in Ids : ~w.bufs[i].live /\ \A j \in Ids : j < i => w.bufs[j].live
    ELSE 0

_InitializeOutputStateMachine(w, id) ==
    [w EXCEPT !.pipes[id] = [StateMachine |-> TRUE, Adapter |-> TRUE, BufferWriter |-> TRUE,
                              ConApi |-> TRUE, conApiTarget |-> id, writerTarget |-> id]]

CreateInstance(w, id, coordWindowSize, coordScreenBufferSize) ==
    LET w1 == [w EXCEPT !.bufs[id] =
                  NewScreenInformation(coordWindowSize, coordScreenBufferSize, id)]
    IN  [_InitializeOutputStateMachine(w1, id) EXCEPT !.status = "SUCCESS"]

s_InsertScreenBuffer(w, id) == [w EXCEPT !.ScreenBuffers = <<id>> \o w.ScreenBuffers]

\* delete of one object of an output state machine; deleting it twice, or an
\* object that was never allocated, is recorded in uaf
DeletePipePart(w, pid, part) ==
    IF pid = 0 THEN w
    ELSE IF ~w.pipes[pid][part] THEN [w EXCEPT !.uaf = TRUE]
    ELSE [w EXCEPT !.pipes[pid][part] = FALSE]

RECURSIVE s_RemoveScreenBuffer(_, _)
RECURSIVE _FreeOutputStateMachine(_, _)

\* _FreeOutputStateMachine of a main buffer that leaves its alt buffer alone
_FreeOutputStateMachineLeaveAlt(w, id) ==
    LET b == w.bufs[id]
    IN  IF b.main = 0
        THEN DeletePipePart(DeletePipePart(DeletePipePart(DeletePipePart(w,
                 b.pStateMachine, "StateMachine"), b.pAdapter, "Adapter"),
                 b.pBufferWriter, "BufferWriter"), b.pConApi, "ConApi")
        ELSE w

_FreeOutputStateMachine(w, id) ==
    LET b == w.bufs[id]
    IN  IF b.main = 0
        THEN LET w1 == IF b.alt # 0 THEN s_RemoveScreenBuffer(w, b.alt) ELSE w
                 w2 == DeletePipePart(w1, b.pStateMachine, "StateMachine")
                 w3 == DeletePipePart(w2, b.pAdapter, "Adapter")
                 w4 == DeletePipePart(w3, b.pBufferWriter, "BufferWriter")
             IN  DeletePipePart(w4, b.pConApi, "ConApi")
        ELSE LET okApi == b.pConApi # 0 /\ w.pipes[b.pConApi].ConApi
                 okWriter == b.pBufferWriter # 0 /\ w.pipes[b.pBufferWriter].BufferWriter
                 w1 == IF okApi THEN [w EXCEPT !.pipes[b.pConApi].conApiTarget = b.main]
                       ELSE [w EXCEPT !.uaf = TRUE]
             IN  IF okWriter THEN [w1 EXCEPT !.pipes[b.pBufferWriter].writerTarget = b.main]
                 ELSE [w1 EXCEPT !.uaf = TRUE]

\* ~SCREEN_INFORMATION, after which the object's memory is released
Destructor(w, id) ==
    LET w1 == _FreeOutputStateMachine(w, id)
    IN  [w1 EXCEPT !.bufs[id] = FreedBuf]

\* the variant that leaves the current-buffer reference alone
s_RemoveScreenBufferKeepCurrent(w, id) ==
    Destructor([w EXCEPT !.ScreenBuffers = SelectSeq(w.ScreenBuffers, LAMBDA x : x # id)],
               id)

s_RemoveScreenBuffer(w, id) ==
    LET list == SelectSeq(w.ScreenBuffers, LAMBDA x : x # id)
        head == IF list = <<>> THEN 0 ELSE Head(list)
        w1 == [w EXCEPT !.ScreenBuffers = list]
        w2 == IF id = w1.Current /\ head # w1.Current
              THEN IF head # 0
                   THEN SetActiveScreenBuffer(w1, head)
                   ELSE [w1 EXCEPT !.Current = 0]
              ELSE w1
    IN  Destructor(w2, id)

GetMainBuffer(w, id) == IF w.bufs[id].main # 0 THEN w.bufs[id].main ELSE id

\* _CreateAltBuffer where the new buffer keeps the handles of its own state machine
_CreateAltBufferOwnHandles(w, thisId, newId) ==
    LET this == w.bufs[thisId]
        WindowSize == COORD(CalcWindowSizeX(this.viewport), CalcWindowSizeY(this.viewport))
    IN  [_FreeOutputStateMachine(
            s_InsertScreenBuffer(CreateInstance(w, newId, WindowSize, WindowSize), newId),
            newId)
           EXCEPT !.status = "SUCCESS"]

_CreateAltBuffer(w, thisId, newId) ==
    LET this == w.bufs[thisId]
        WindowSize == COORD(CalcWindowSizeX(this.viewport), CalcWindowSizeY(this.viewport))
        w1 == CreateInstance(w, newId, WindowSize, WindowSize)
        w2 == s_InsertScreenBuffer(w1, newId)
        w3 == _FreeOutputStateMachine(w2, newId)
    IN  [w3 EXCEPT !.bufs[newId].pStateMachine = this.pStateMachine,
                   !.bufs[newId].pAdapter = this.pAdapter,
                   !.bufs[newId].pBufferWriter = this.pBufferWriter,
                   !.bufs[newId].pConApi = this.pConApi,
                   !.status = "SUCCESS"]

\* ReplaySavedResize that forgets the saved resize without applying it
ReplaySavedResizeDropped(w, mainId) == [w EXCEPT !.bufs[mainId].fAltWindowChanged = FALSE]

\* the resize the alt stashed on its main is applied to the main (lines 1923-1927)
ReplaySavedResize(w, mainId) ==
    LET m == w.bufs[mainId]
    IN  IF m.fAltWindowChanged
        THEN [ProcessResizeWindow(w, mainId, m.rcAltSavedClientNew, m.rcAltSavedClientOld)
                 EXCEPT !.bufs[mainId].fAltWindowChanged = FALSE]
        ELSE w

\* _pConApi->SetActiveScreenBuffer(psi); _pBufferWriter->SetActiveScreenBuffer(psi)
\* through the handles hApi and hWriter
RedirectStateMachine(w, hApi, hWriter, target) ==
    LET w1 == IF hApi # 0 /\ w.pipes[hApi].ConApi
              THEN [w EXCEPT !.pipes[hApi].conApiTarget = target]
              ELSE w
    IN  IF hWriter # 0 /\ w1.pipes[hWriter].BufferWriter
        THEN [w1 EXCEPT !.pipes[hWriter].writerTarget = target]
        ELSE w1

\* the old alt buffer is removed and the output state machine and the console
\* turn to the new one (lines 1945-1950).  this is the object as it was before
\* the removal.  staleRead: when this has been deleted as the old alt, the read
\* of this->_pConApi still finds the value the object held; otherwise it finds
\* a pointer to no state machine.
SwitchToAltBuffer(w, this, thisFreed, newId, staleRead) ==
    SetActiveScreenBuffer(
        RedirectStateMachine([w EXCEPT !.uaf = w.uaf \/ thisFreed],
                             IF thisFreed /\ ~staleRead THEN 0 ELSE this.pConApi,
                             IF thisFreed /\ ~staleRead THEN 0 ELSE this.pBufferWriter,
                             newId),
        newId)

\* LinkAltBuffer without the removal of the old alt buffer
LinkAltBufferKeepOld(w, thisId, psiMain, newId, staleRead) ==
    SwitchToAltBuffer([w EXCEPT !.bufs[newId].main = psiMain, !.bufs[psiMain].alt = newId],
                      w.bufs[thisId], FALSE, newId, staleRead)

\* the new alt buffer is linked to the main buffer and the old alt removed
\* (lines 1936-1944)
LinkAltBuffer(w, thisId, psiMain, newId, staleRead) ==
    LET psiOldAltBuffer == w.bufs[psiMain].alt
        linked == [w EXCEPT !.bufs[newId].main = psiMain, !.bufs[psiMain].alt = newId]
    IN  SwitchToAltBuffer(
            IF psiOldAltBuffer # 0 THEN s_RemoveScreenBuffer(linked, psiOldAltBuffer) ELSE linked,
            w.bufs[thisId], psiOldAltBuffer = thisId, newId, staleRead)

\* the alt buffer is created once the saved resize is replayed (lines 1929-1962)
CreateAndUseAltBuffer(w, thisId, psiMain, allocOk, staleRead) ==
    IF ~allocOk \/ FreeId(w) = 0
    THEN [w EXCEPT !.status = "NO_MEMORY"]
    ELSE LinkAltBuffer(_CreateAltBuffer(w, thisId, FreeId(w)), thisId, psiMain, FreeId(w),
                       staleRead)

\* allocOk: the allocations of the new buffer succeed
UseAlternateScreenBuffer(w, thisId, allocOk, staleRead) ==
    CreateAndUseAltBuffer(ReplaySavedResize(w, GetMainBuffer(w, thisId)),
                          thisId, GetMainBuffer(w, thisId), allocOk, staleRead)

\* RemoveAltBuffer where the main buffer keeps its reference to the alt
RemoveAltBufferKeepLink(w, psiMain) ==
    LET alt == w.bufs[psiMain].alt
    IN  [s_RemoveScreenBuffer([w EXCEPT !.bufs[psiMain].alt = 0], alt)
            EXCEPT !.bufs[psiMain].alt = alt]

\* the alt buffer of the main buffer is unlinked and removed (lines 1989-1991)
RemoveAltBuffer(w, psiMain) ==
    s_RemoveScreenBuffer([w EXCEPT !.bufs[psiMain].alt = 0], w.bufs[psiMain].alt)

UseMainScreenBuffer(w, thisId) ==
    LET psiMain == w.bufs[thisId].main
    IN  IF psiMain = 0 THEN [w EXCEPT !.status = "SUCCESS"]
        ELSE [RemoveAltBuffer(
                  UpdateScrollBars(
                      SetActiveScreenBuffer(ReplaySavedResize(w, psiMain), psiMain),
                      psiMain),
                  psiMain)
                 EXCEPT !.status = "SUCCESS"]

---------------------------------------------------------------------------
(* Inputs the environment draws from *)

\* the size the console creates its screen buffers with
InitialSize == COORD(3, 3)

\* client areas in pixels the window is resized between
ClientRects == {RECT(0, 0, 6, 6), RECT(0, 0, 8, 8), RECT(2, 0, 8, 6)}

\* buffer sizes of the single-buffer specifications
BufferSizes == {COORD(x, y) : x \in 2..MaxCols, y \in 2..MaxRows}

Registered(id) == \E i \in 1..Len(ScreenBuffers) : ScreenBuffers[i] = id

NoOp == [op |-> "none", id |-> 0, status |-> "SUCCESS", arg |-> 0]

\* the state after an operation that took the console from World to w
Commit(w, op, id, arg, snapshot) ==
    /\ bufs' = w.bufs
    /\ ScreenBuffers' = w.ScreenBuffers
    /\ CurrentScreenBuffer' = w.Current
    /\ pipes' = w.pipes
    /\ updatingScrollBars' = w.updating
    /\ scrollMsgs' = w.msgs
    /\ pWindow' = w.window
    /\ uaf' = w.uaf
    /\ wrapText' = wrapText
    /\ last' = [op |-> op, id |-> id, status |-> w.status, arg |-> arg]
    /\ pre' = snapshot

\* the console after start-up: one screen buffer, registered and active, and
\* its window
StartWorld(b) ==
    /\ pWindow = TRUE
    /\ bufs = [i \in Ids |-> IF i = 1 THEN b ELSE FreedBuf]
    /\ ScreenBuffers = <<1>>
    /\ CurrentScreenBuffer = 1
    /\ pipes = [i \in Ids |-> IF i = 1
                              THEN [StateMachine |-> TRUE, Adapter |-> TRUE,
                                    BufferWriter |-> TRUE, ConApi |-> TRUE,
                                    conApiTarget |-> 1, writerTarget |-> 1]
                              ELSE FreedPipe]
    /\ updatingScrollBars = FALSE
    /\ scrollMsgs = 0
    /\ uaf = FALSE
    /\ last = NoOp
    /\ pre = FreedBuf

---------------------------------------------------------------------------
(* The operations of the console on its screen buffers *)

\* the console creates another screen buffer (CreateConsoleScreenBuffer)
CreateScreenBuffer ==
    /\ FreeId(World) # 0
    /\ LET id == FreeId(World)
           w == s_InsertScreenBuffer(CreateInstance(World, id, InitialSize, InitialSize), id)
       IN  Commit(w, "CreateScreenBuffer", id, 0, FreedBuf)

\* the last handle of a screen buffer is closed; alt buffers have no handle
RemoveScreenBuffer(id) ==
    /\ Registered(id)
    /\ bufs[id].main = 0
    /\ Commit(s_RemoveScreenBuffer(World, id), "RemoveScreenBuffer", id,
              <<bufs[id].alt, CurrentScreenBuffer, ScreenBuffers>>, FreedBuf)

ActivateScreenBuffer(id) ==
    /\ Registered(id)
    /\ CurrentScreenBuffer # id
    /\ Commit(SetActiveScreenBuffer(World, id), "SetActiveScreenBuffer", id, 0, FreedBuf)

UseAlternate(id) ==
    /\ Registered(id)
    /\ \E allocOk \in BOOLEAN, staleRead \in BOOLEAN :
          Commit(UseAlternateScreenBuffer(World, id, allocOk, staleRead),
                 "UseAlternateScreenBuffer", id,
                 <<GetMainBuffer(World, id), bufs[GetMainBuffer(World, id)].alt,
                   bufs[GetMainBuffer(World, id)].fAltWindowChanged>>,
                 FreedBuf)

UseMain(id) ==
    /\ Registered(id)
    /\ Commit(UseMainScreenBuffer(World, id), "UseMainScreenBuffer", id,
              <<bufs[id].main, id, bufs[GetMainBuffer(World, id)].fAltWindowChanged>>,
              FreedBuf)

\* the window reports a new client area to the active screen buffer
ResizeWindow(rects) ==
    /\ CurrentScreenBuffer # 0
    /\ \E rcNew \in rects, rcOld \in rects :
          Commit(ProcessResizeWindow(World, CurrentScreenBuffer, rcNew, rcOld),
                 "ProcessResizeWindow", CurrentScreenBuffer, <<rcNew, rcOld>>, FreedBuf)

\* the window processes a posted scroll-bar update
ScrollBarMessage ==
    /\ scrollMsgs > 0
    /\ CurrentScreenBuffer # 0
    /\ Commit([InternalUpdateScrollBars(World, CurrentScreenBuffer)
                  EXCEPT !.msgs = scrollMsgs - 1],
              "InternalUpdateScrollBars", CurrentScreenBuffer, 0, FreedBuf)

---------------------------------------------------------------------------
(* Spec: the registry of screen buffers, the main/alt pair and its output  *)
(* state machine.  The window is maximized or not resized at all; the      *)
(* buffers are resized without reflow.                                     *)

Init ==
    /\ wrapText = FALSE
    /\ StartWorld(NewScreenInformation(InitialSize, InitialSize, 1))

Next ==
    \/ CreateScreenBuffer
    \/ \E id \in Ids : RemoveScreenBuffer(id)
    \/ \E id \in Ids : ActivateScreenBuffer(id)
    \/ \E id \in Ids : UseAlternate(id)
    \/ \E id \in Ids : UseMain(id)
    \/ ResizeWindow({RECT(0, 0, 8, 8)})
    \/ ScrollBarMessage

Spec == Init /\ [][Next]_vars

---------------------------------------------------------------------------
(* SpecResize: one main buffer and its alt buffers while the window is     *)
(* resized between all client areas, with and without reflow               *)

NextResize ==
    \/ \E id \in Ids : UseAlternate(id)
    \/ \E id \in Ids : UseMain(id)
    \/ ResizeWindow(ClientRects)
    \/ ScrollBarMessage

InitResize ==
    /\ wrapText \in BOOLEAN
    /\ StartWorld(NewScreenInformation(InitialSize, InitialSize, 1))

SpecResize == InitResize /\ [][NextResize]_vars

---------------------------------------------------------------------------
(* SpecView: the viewport and the size of one screen buffer under the      *)
(* calls of the API and of the window.  SpecCursor: its cursor and its     *)
(* size.                                                                   *)

CallSetViewportRect ==
    /\ bufs[1].live
    /\ \E rc \in {SMALL_RECT(l, t, r, b) : l \in {-1, 0}, t \in {-1, 0},
                                           r \in {1, MaxCols + 1}, b \in {1, MaxRows + 1}} :
          Commit([World EXCEPT !.bufs[1] = SetViewportRect(bufs[1], rc)],
                 "SetViewportRect", 1, 0, FreedBuf)

CallSetViewportOrigin ==
    /\ bufs[1].live
    /\ \E fAbsolute \in BOOLEAN,
          coordWindowOrigin \in {COORD(x, y) : x \in {-1, 0, 1}, y \in {0, 1}} :
          LET r == SetViewportOrigin(bufs[1], IsActiveScreenBuffer(World, 1), fAbsolute,
                                     coordWindowOrigin)
          IN  Commit([World EXCEPT !.bufs[1] = r.buf, !.status = r.status],
                     "SetViewportOrigin", 1, 0, FreedBuf)

CallSetViewportSize ==
    /\ bufs[1].live
    /\ \E coordSize \in {COORD(x, y) : x \in {1, MaxCols}, y \in {1, MaxRows}} :
          Commit([World EXCEPT !.bufs[1] = SetViewportSize(bufs[1], coordSize)],
                 "SetViewportSize", 1, 0, FreedBuf)

\* SetConsoleScreenBufferSize; keep: the buffer before the call is remembered
CallResizeScreenBuffer(keep) ==
    /\ bufs[1].live
    /\ \E coordNewScreenSize \in BufferSizes, imeOk \in BOOLEAN :
          Commit(ResizeScreenBuffer(World, 1, coordNewScreenSize, TRUE, imeOk),
                 "ResizeScreenBuffer", 1, coordNewScreenSize,
                 IF keep THEN bufs[1] ELSE FreedBuf)

\* the cursor positions asked for: some of them outside every buffer
CallSetCursorPosition ==
    /\ bufs[1].live
    /\ \E Position \in {COORD(0, 0), COORD(0, MaxRows - 1), COORD(MaxCols - 1, 1),
                         COORD(-1, 0), COORD(0, MaxRows)} :
          LET r == SetCursorPosition(bufs[1], Position)
          IN  Commit([World EXCEPT !.bufs[1] = r.buf, !.status = r.status],
                     "SetCursorPosition", 1, Position, FreedBuf)

NextView ==
    \/ CallSetViewportRect
    \/ CallSetViewportOrigin
    \/ CallSetViewportSize
    \/ CallResizeScreenBuffer(FALSE)
    \/ ResizeWindow({RECT(0, 0, 8, 8)})
    \/ ScrollBarMessage

SpecView == InitResize /\ [][NextView]_vars

NextCursor ==
    \/ CallSetCursorPosition
    \/ CallResizeScreenBuffer(FALSE)
    \/ ScrollBarMessage

SpecCursor == InitResize /\ [][NextCursor]_vars

---------------------------------------------------------------------------
(* SpecTrad: one screen buffer full of text, scrolled by any number of     *)
(* rows, resized without reflow                                            *)

\* the screen buffer once text has filled it and scrolled it by first rows:
\* every cell of the buffer holds its own character
WrittenScreenInformation(size, first, cur) ==
    [NewScreenInformation(size, size, 1) EXCEPT
        !.text.Rows = [p \in 1..size.Y |->
            [BlankRow(size.X, FillAttr, p - 1) EXCEPT
                !.Chars = [c \in 1..size.X |-> 100 + 10 * (p - 1) + c],
                !.KAttrs = [c \in 1..size.X |-> ((p - 1) + c) % 3],
                !.Left = 0,
                !.Right = size.X]],
        !.text.FirstRow = first,
        !.text.cursor = cur]

InitTrad ==
    /\ wrapText = FALSE
    /\ \E size \in BufferSizes, first \in 0..(MaxRows - 1),
          cur \in {COORD(x, y) : x \in 0..(MaxCols - 1), y \in 0..(MaxRows - 1)} :
          /\ first < size.Y
          /\ cur.X >= 0 /\ cur.X < size.X
          /\ cur.Y >= 0 /\ cur.Y < size.Y
          /\ StartWorld(WrittenScreenInformation(size, first, cur))

SpecTrad == InitTrad /\ [][CallResizeScreenBuffer(TRUE)]_vars

\* the positions of a buffer of the given size
InsideBuffer(pos, size) ==
    /\ 0 <= pos.X /\ pos.X < size.X
    /\ 0 <= pos.Y /\ pos.Y < size.Y

---------------------------------------------------------------------------
(* SpecReflow: one screen buffer holding lines of text, some of them       *)
(* wrapped, resized with reflow                                            *)

\* a row holding right characters of text, each cell its own character, the
\* rest of it blank; wrapped: the text wrapped onto the next row
TextRow(cols, p, right, wrapped) ==
    [BlankRow(cols, FillAttr, p) EXCEPT
        !.Chars = [c \in 1..cols |-> IF c <= right THEN 100 + 10 * p + c ELSE UNICODE_SPACE],
        !.KAttrs = [c \in 1..cols |-> IF c <= right THEN (p + c) % 3 ELSE 0],
        !.Left = IF right = 0 THEN cols ELSE 0,
        !.Right = right,
        !.WrapForced = wrapped]

\* the rows text is written to: blank, one character, or full; a row with
\* text may have wrapped
RowShapes(cols) ==
    {<<0, FALSE>>, <<1, FALSE>>, <<1, TRUE>>, <<cols, FALSE>>, <<cols, TRUE>>}

\* the screen buffer holding the rows of the given shapes, its cursor at cur
TextScreenInformation(size, shapes, cur) ==
    [NewScreenInformation(size, size, 1) EXCEPT
        !.text.Rows = [p \in 1..size.Y |->
                          TextRow(size.X, p - 1, shapes[p][1], shapes[p][2])],
        !.text.cursor = cur]

InitReflow ==
    /\ wrapText = TRUE
    /\ \E size \in {COORD(MaxCols, 2), COORD(2, 3)} :
       \E shapes \in [1..size.Y -> RowShapes(size.X)],
          cur \in {COORD(x, y) : x \in 0..(MaxCols - 1), y \in 0..(MaxRows - 1)} :
          /\ InsideBuffer(cur, size)
          /\ StartWorld(TextScreenInformation(size, shapes, cur))

SpecReflow == InitReflow /\ [][CallResizeScreenBuffer(TRUE)]_vars

---------------------------------------------------------------------------
(* SpecFail: one screen buffer full of text, resized with and without      *)
(* reflow while allocations fail                                           *)

\* the screen buffer and its text buffer agree on the size; a resize of a
\* buffer whose sizes disagree reads past the end of its rows and is not
\* followed further
\* SetConsoleScreenBufferSize while memory runs out; an allocation the
\* resize does not make does not fail, and the resize succeeds.  The
\* allocations that can fail: the two flat arrays and the ROWs array of the
\* traditional resize, the attribute row of a new ROW, the resize of the
\* attribute row of ROW number row, and the allocations of the reflowing
\* resize (its new text buffer and what InsertCharacter, NewlineCursor and
\* IncrementCursor allocate)
CallResizeScreenBufferNoMemory ==
    /\ bufs[1].live
    /\ bufs[1].size = bufs[1].text.coordBufferSize
    /\ \E coordNewScreenSize \in BufferSizes,
          at \in {<<alloc, 0>> : alloc \in {"TextRows", "TextRowsA", "Temp",
                                            "AttrRow.Initialize", "AttrRow.Resize",
                                            "Reflow"}}
                    \cup {<<"AttrRow.Resize", row>> : row \in 1..(MaxRows - 1)} :
          Commit(ResizeScreenBufferNoMemory(World, 1, coordNewScreenSize, TRUE, at[1], at[2]),
                 "ResizeScreenBuffer", 1, coordNewScreenSize, bufs[1])

InitFail ==
    /\ wrapText \in BOOLEAN
    /\ \E size \in BufferSizes, first \in 0..1 :
          StartWorld(WrittenScreenInformation(size, first, COORD(0, 0)))

SpecFail == InitFail /\ [][CallResizeScreenBufferNoMemory]_vars

---------------------------------------------------------------------------
(* SpecTabs: the tab stops of one screen buffer, set and cleared in any    *)
(* order while allocations succeed or fail                                 *)

MaxTabColumn == 3

\* columns the callers set and clear tab stops at
TabColumns == 0..MaxTabColumn

CallAddTabStop ==
    /\ bufs[1].live
    /\ \E sColumn \in TabColumns, fAllocated \in BOOLEAN :
          LET r == AddTabStop(bufs[1], sColumn, fAllocated)
          IN  Commit([World EXCEPT !.bufs[1] = r.buf, !.status = r.status],
                     "AddTabStop", 1,
                     [sColumn |-> sColumn, fAllocated |-> fAllocated], bufs[1])

CallClearTabStop ==
    /\ bufs[1].live
    /\ \E sColumn \in TabColumns :
          Commit([World EXCEPT !.bufs[1] = ClearTabStop(bufs[1], sColumn),
                               !.status = "SUCCESS"],
                 "ClearTabStop", 1, sColumn, bufs[1])

CallClearTabStops ==
    /\ bufs[1].live
    /\ Commit([World EXCEPT !.bufs[1] = ClearTabStops(bufs[1]), !.status = "SUCCESS"],
              "ClearTabStops", 1, 0, bufs[1])

CallGetForwardTab ==
    /\ bufs[1].live
    /\ \E cCurrCursorPos \in {COORD(x, y) : x \in 0..(MaxCols - 1), y \in 0..1} :
          /\ InsideBuffer(cCurrCursorPos, bufs[1].size)
          /\ Commit([World EXCEPT !.status = "SUCCESS"], "GetForwardTab", 1,
                    [cCurrCursorPos |-> cCurrCursorPos,
                     cNewCursorPos |-> GetForwardTab(bufs[1], cCurrCursorPos)],
                    bufs[1])

CallGetReverseTab ==
    /\ bufs[1].live
    /\ \E cCurrCursorPos \in {COORD(x, y) : x \in 0..(MaxCols - 1), y \in 0..1} :
          /\ InsideBuffer(cCurrCursorPos, bufs[1].size)
          /\ Commit([World EXCEPT !.status = "SUCCESS"], "GetReverseTab", 1,
                    [cCurrCursorPos |-> cCurrCursorPos,
                     cNewCursorPos |-> GetReverseTab(bufs[1], cCurrCursorPos)],
                    bufs[1])

\* the buffer the tab stops belong to is two rows high and of any width
InitTabs ==
    /\ wrapText = FALSE
    /\ \E size \in {COORD(x, 2) : x \in 2..MaxCols} :
          StartWorld(NewScreenInformation(size, size, 1))

NextTabs ==
    \/ CallAddTabStop
    \/ CallClearTabStop
    \/ CallClearTabStops
    \/ CallGetForwardTab
    \/ CallGetReverseTab

SpecTabs == InitTabs /\ [][NextTabs]_vars

---------------------------------------------------------------------------
(* SpecTabResize: the tab stops of one screen buffer while the buffer is   *)
(* resized by the API and by the window, with and without reflow           *)

\* the window reports a new client area to the active screen buffer, which
\* is remembered as it was before
ResizeWindowKeeping(rects) ==
    /\ CurrentScreenBuffer # 0
    /\ \E rcNew \in rects, rcOld \in rects :
          Commit(ProcessResizeWindow(World, CurrentScreenBuffer, rcNew, rcOld),
                 "ProcessResizeWindow", CurrentScreenBuffer, <<rcNew, rcOld>>,
                 bufs[CurrentScreenBuffer])

NextTabResize ==
    \/ CallAddTabStop
    \/ CallResizeScreenBuffer(TRUE)
    \/ ResizeWindowKeeping(ClientRects)

SpecTabResize == InitResize /\ [][NextTabResize]_vars

---------------------------------------------------------------------------
(* SpecRect: the viewport of one screen buffer of any size under           *)
(* SetViewportRect, each call remembered with its rectangle                *)

CallSetViewportRectOf ==
    /\ bufs[1].live
    /\ \E rc \in {SMALL_RECT(l, t, r, b) : l \in {-1, 0}, t \in {-1, 0},
                                           r \in {1, MaxCols + 1}, b \in {1, MaxRows + 1}} :
          Commit([World EXCEPT !.bufs[1] = SetViewportRect(bufs[1], rc)],
                 "SetViewportRect", 1, rc, bufs[1])

InitRect ==
    /\ wrapText = FALSE
    /\ \E size \in BufferSizes : StartWorld(NewScreenInformation(size, size, 1))

SpecRect == InitRect /\ [][CallSetViewportRectOf]_vars

---------------------------------------------------------------------------
(* SpecOrigin: the viewport of the first screen buffer under               *)
(* SetViewportRect and SetViewportOrigin, each move remembered, while      *)
(* this buffer or another one is the active one                            *)

CallSetViewportOriginOf ==
    /\ bufs[1].live
    /\ \E fAbsolute \in BOOLEAN,
          coordWindowOrigin \in {COORD(x, y) : x \in {-1, 0, 1}, y \in {0, 1}} :
          LET r == SetViewportOrigin(bufs[1], IsActiveScreenBuffer(World, 1), fAbsolute,
                                     coordWindowOrigin)
          IN  Commit([World EXCEPT !.bufs[1] = r.buf, !.status = r.status],
                     "SetViewportOrigin", 1,
                     [fAbsolute |-> fAbsolute, coordWindowOrigin |-> coordWindowOrigin,
                      active |-> IsActiveScreenBuffer(World, 1)],
                     bufs[1])

NextOrigin ==
    \/ CreateScreenBuffer
    \/ \E id \in Ids : ActivateScreenBuffer(id)
    \/ CallSetViewportRect
    \/ CallSetViewportOriginOf

SpecOrigin == Init /\ [][NextOrigin]_vars

---------------------------------------------------------------------------
(* SpecDrag: the viewport of one screen buffer larger than its window,     *)
(* scrolled to any origin, while single edges of the window are dragged    *)

InitDrag ==
    /\ wrapText = FALSE
    /\ StartWorld(NewScreenInformation(COORD(2, 2), COORD(MaxCols + 1, MaxRows), 1))

\* the client areas differ in their left edge, in their top edge, or in
\* their right and bottom edges
NextDrag ==
    \/ CallSetViewportOrigin
    \/ ResizeWindowKeeping({RECT(0, 0, 5, 5), RECT(2, 0, 5, 5),
                            RECT(0, 2, 5, 5), RECT(0, 0, 3, 3)})
    \/ ScrollBarMessage

SpecDrag == InitDrag /\ [][NextDrag]_vars

---------------------------------------------------------------------------
(* SpecVisible: the viewport of one screen buffer larger than its window,  *)
(* scrolled and resized, while the cursor's position is made visible       *)

CallMakeCursorVisible ==
    /\ bufs[1].live
    /\ \E CursorPosition \in {COORD(x, y) : x \in 0..MaxCols, y \in 0..(MaxRows - 1)} :
          /\ InsideBuffer(CursorPosition, bufs[1].size)
          /\ Commit([World EXCEPT !.bufs[1] =
                        MakeCursorVisible(bufs[1], IsActiveScreenBuffer(World, 1),
                                          CursorPosition),
                                  !.status = "SUCCESS"],
                    "MakeCursorVisible", 1, CursorPosition, bufs[1])

NextVisible ==
    \/ CallSetViewportOrigin
    \/ CallSetViewportSize
    \/ CallMakeCursorVisible

SpecVisible == InitDrag /\ [][NextVisible]_vars

---------------------------------------------------------------------------
(* SpecClip: rectangles and positions, inside the buffer, over its edges   *)
(* and outside it, clipped to one screen buffer of any size                *)

CallClipToScreenBuffer ==
    /\ bufs[1].live
    /\ last = NoOp
    /\ \E srClip \in {SMALL_RECT(l, t, r, b) : l \in -1..(MaxCols + 1), t \in -1..(MaxRows + 1),
                                               r \in -1..(MaxCols + 1), b \in -1..(MaxRows + 1)} :
          Commit([World EXCEPT !.status = "SUCCESS"], "ClipToScreenBuffer", 1,
                 [srClip |-> srClip,
                  once |-> ClipToScreenBuffer(bufs[1], srClip),
                  twice |-> ClipToScreenBuffer(bufs[1], ClipToScreenBuffer(bufs[1], srClip))],
                 bufs[1])

CallClipToScreenBufferCoord ==
    /\ bufs[1].live
    /\ last = NoOp
    /\ \E coordClip \in {COORD(x, y) : x \in -1..(MaxCols + 1), y \in -1..(MaxRows + 1)} :
          Commit([World EXCEPT !.status = "SUCCESS"], "ClipToScreenBufferCoord", 1,
                 [coordClip |-> coordClip,
                  once |-> ClipToScreenBufferCoord(bufs[1], coordClip),
                  twice |-> ClipToScreenBufferCoord(bufs[1],
                                ClipToScreenBufferCoord(bufs[1], coordClip))],
                 bufs[1])

NextClip ==
    \/ CallClipToScreenBuffer
    \/ CallClipToScreenBufferCoord

SpecClip == InitRect /\ [][NextClip]_vars

---------------------------------------------------------------------------
(* SpecSize: the viewport of one screen buffer larger than its window,     *)
(* scrolled, its cursor moved, and resized from each of its corners        *)

CallInternalSetViewportSize ==
    /\ bufs[1].live
    /\ \E coordSize \in {COORD(x, y) : x \in 1..(MaxCols + 1), y \in 1..MaxRows},
          fResizeFromTop \in BOOLEAN, fResizeFromLeft \in BOOLEAN :
          Commit([World EXCEPT !.bufs[1] =
                        _InternalSetViewportSize(bufs[1], coordSize, fResizeFromTop,
                                                 fResizeFromLeft),
                                  !.status = "SUCCESS"],
                 "_InternalSetViewportSize", 1,
                 [coordSize |-> coordSize, fResizeFromTop |-> fResizeFromTop,
                  fResizeFromLeft |-> fResizeFromLeft],
                 bufs[1])

NextSize ==
    \/ CallSetViewportOrigin
    \/ CallSetCursorPosition
    \/ CallInternalSetViewportSize

SpecSize == InitDrag /\ [][NextSize]_vars

---------------------------------------------------------------------------
(* SpecHidden: one screen buffer whose cursor is shown and hidden while    *)
(* the window is resized between all client areas, with and without reflow *)

CallSetCursorInformation ==
    /\ bufs[1].live
    /\ \E Size \in {25}, Visible \in BOOLEAN :
          LET r == SetCursorInformation(bufs[1], Size, Visible)
          IN  Commit([World EXCEPT !.bufs[1] = r.buf, !.status = r.status],
                     "SetCursorInformation", 1, Visible, bufs[1])

NextHidden ==
    \/ CallSetCursorInformation
    \/ ResizeWindowKeeping(ClientRects)

SpecHidden == InitResize /\ [][NextHidden]_vars

---------------------------------------------------------------------------
(* SpecScroll: the scroll-bar updates of a console that starts without its *)
(* window, while screen buffers are created, activated and resized, the    *)
(* window is created and the window processes the updates posted to it     *)

\* the window and its input thread are created
CreateWindow ==
    /\ ~pWindow
    /\ Commit([World EXCEPT !.window = TRUE], "CreateWindow", 0, 0, FreedBuf)

\* the console after start-up, before there is a window
InitScroll ==
    /\ wrapText = FALSE
    /\ pWindow = FALSE
    /\ bufs = [i \in Ids |-> IF i = 1
                             THEN NewScreenInformation(InitialSize, InitialSize, 1)
                             ELSE FreedBuf]
    /\ ScreenBuffers = <<1>>
    /\ CurrentScreenBuffer = 1
    /\ pipes = [i \in Ids |-> IF i = 1
                              THEN [StateMachine |-> TRUE, Adapter |-> TRUE,
                                    BufferWriter |-> TRUE, ConApi |-> TRUE,
                                    conApiTarget |-> 1, writerTarget |-> 1]
                              ELSE FreedPipe]
    /\ updatingScrollBars = FALSE
    /\ scrollMsgs = 0
    /\ uaf = FALSE
    /\ last = NoOp
    /\ pre = FreedBuf

NextScroll ==
    \/ CreateWindow
    \/ CreateScreenBuffer
    \/ \E id \in Ids : ActivateScreenBuffer(id)
    \/ CallResizeScreenBuffer(TRUE)
    \/ ScrollBarMessage

SpecScroll == InitScroll /\ [][NextScroll]_vars

---------------------------------------------------------------------------
(* SpecGeometry: the geometry of one window resize over a main buffer, for *)
(* every client area, font and buffer size                                 *)

MaxPixels == 8

\* the client areas of the window, some of them smaller than a character,
\* the fonts, and the sizes of the buffer before the window is resized
CalculateGeometry ==
    /\ last = NoOp
    /\ \E rcClientNew \in {RECT(0, 0, r, b) : r \in 1..MaxPixels, b \in 1..MaxPixels},
          coordFontSize \in {COORD(1, 1), COORD(2, 2), COORD(2, 3)},
          coordBufferSizeOld \in {COORD(x, y) : x \in 1..(MaxCols + 1), y \in 1..MaxRows},
          fWrapText \in BOOLEAN :
          Commit([World EXCEPT !.status = "SUCCESS"], "Geometry", 1,
                 [rcClientNew |-> rcClientNew,
                  coordFontSize |-> coordFontSize,
                  coordBufferSizeOld |-> coordBufferSizeOld,
                  fWrapText |-> fWrapText,
                  result |-> ResizeGeometry(rcClientNew, coordBufferSizeOld,
                                            coordFontSize, fWrapText)],
                 FreedBuf)

SpecGeometry == Init /\ [][CalculateGeometry]_vars

---------------------------------------------------------------------------
(* SpecBounds: the size of one screen buffer under resizes to any size a   *)
(* COORD can ask for, and under resizes of the window                      *)

\* the rows and cells the text buffer of b holds are those of its size; they
\* are fewer after a resize to no rows or no columns, and a resize of such a
\* buffer reads past its storage
StorageAgrees(b) ==
    /\ Len(b.text.Rows) = b.size.Y
    /\ \A i \in 1..Len(b.text.Rows) : Len(b.text.Rows[i].Chars) = b.size.X

\* the sizes a caller asks for: none, small, too large, and negative
CallResizeScreenBufferOf ==
    /\ bufs[1].live
    /\ StorageAgrees(bufs[1])
    /\ \E coordNewScreenSize \in
            {COORD(x, 2) : x \in {0, 2, SHORT_MAX, -1}}
                \cup {COORD(2, y) : y \in {0, MaxRows, SHORT_MAX, -1}},
          imeOk \in BOOLEAN :
          Commit(ResizeScreenBuffer(World, 1, coordNewScreenSize, TRUE, imeOk),
                 "ResizeScreenBuffer", 1, coordNewScreenSize, bufs[1])

ResizeWindowOfStored ==
    /\ bufs[1].live
    /\ StorageAgrees(bufs[1])
    /\ ResizeWindow(ClientRects)

NextBounds ==
    \/ CallResizeScreenBufferOf
    \/ ResizeWindowOfStored
    \/ ScrollBarMessage

SpecBounds == InitResize /\ [][NextBounds]_vars

---------------------------------------------------------------------------
(* Properties of the registry and of the main/alt pair *)

LiveIds == {i \in Ids : bufs[i].live}

RegisteredAlts(m) == {a \in Ids : Registered(a) /\ bufs[a].live /\ bufs[a].main = m}

\* C2 (alt uniqueness): every main buffer has at most one alt buffer in the
\* registry, the alt buffer a main refers to is registered and refers back to
\* that main, every registered alt is the alt of its main, and no alt buffer
\* has an alt buffer of its own.
C2_AltUniqueness ==
    \A m \in LiveIds :
        /\ Cardinality(RegisteredAlts(m)) <= 1
        /\ bufs[m].alt # 0 =>
              /\ bufs[m].main = 0
              /\ RegisteredAlts(m) = {bufs[m].alt}
        /\ \A a \in RegisteredAlts(m) : bufs[m].alt = a /\ bufs[a].alt = 0

\* UseAlternateScreenBuffer on a main buffer that had an alt buffer has
\* replaced it
C2_Witness ==
    /\ last.op = "UseAlternateScreenBuffer"
    /\ last.status = "SUCCESS"
    /\ last.id = last.arg[1]
    /\ last.arg[2] # 0
    /\ bufs[last.arg[1]].alt # 0

\* C3 (the state machine follows the new alt buffer): after every successful
\* UseAlternateScreenBuffer, on a main buffer or on the alt buffer it
\* replaces, the new alt buffer is the active screen buffer and the getSet
\* and the buffer writer of the output state machine target it.
C3_PipelineTargetsNewAlt ==
    (last.op = "UseAlternateScreenBuffer" /\ last.status = "SUCCESS") =>
        LET psiMain == last.arg[1]
            psiNewAltBuffer == bufs[psiMain].alt
        IN  /\ psiNewAltBuffer # 0
            /\ CurrentScreenBuffer = psiNewAltBuffer
            /\ pipes[bufs[psiMain].pConApi].conApiTarget = psiNewAltBuffer
            /\ pipes[bufs[psiMain].pBufferWriter].writerTarget = psiNewAltBuffer

\* the four handles of a screen buffer are those of the state machine pid
HoldsStateMachine(b, pid) ==
    /\ b.pConApi = pid
    /\ b.pBufferWriter = pid
    /\ b.pAdapter = pid
    /\ b.pStateMachine = pid

AllocatedStateMachine(pid) ==
    /\ pipes[pid].ConApi
    /\ pipes[pid].BufferWriter
    /\ pipes[pid].Adapter
    /\ pipes[pid].StateMachine

FreedStateMachine(pid) ==
    /\ ~pipes[pid].ConApi
    /\ ~pipes[pid].BufferWriter
    /\ ~pipes[pid].Adapter
    /\ ~pipes[pid].StateMachine

\* C4 (custody of the state machine): a live main buffer holds the handles
\* of the state machine it was constructed with, which is allocated; an alt
\* buffer holds the very handles of its main; the state machine constructed
\* for an alt buffer is freed.
C4_PipelineCustody ==
    \A i \in LiveIds :
        IF bufs[i].main = 0
        THEN HoldsStateMachine(bufs[i], i) /\ AllocatedStateMachine(i)
        ELSE /\ HoldsStateMachine(bufs[i], bufs[i].main)
             /\ HoldsStateMachine(bufs[bufs[i].main], bufs[i].main)
             /\ AllocatedStateMachine(bufs[i].main)
             /\ FreedStateMachine(i)

\* an alt buffer has replaced the alt buffer UseAlternateScreenBuffer was
\* invoked on
C4_Witness ==
    /\ last.op = "UseAlternateScreenBuffer"
    /\ last.status = "SUCCESS"
    /\ last.arg[2] # 0
    /\ last.id = last.arg[2]
    /\ bufs[bufs[last.arg[1]].alt].main = last.arg[1]

\* C5 (back to the main buffer): after a successful UseMainScreenBuffer on
\* an alt buffer A of the main buffer M, M is the active screen buffer, M has
\* no alt buffer, A is not in the registry, and the getSet and the buffer
\* writer of the output state machine target M.
C5_UseMain ==
    (last.op = "UseMainScreenBuffer" /\ last.status = "SUCCESS" /\ last.arg[1] # 0) =>
        LET M == last.arg[1]
            A == last.arg[2]
        IN  /\ CurrentScreenBuffer = M
            /\ bufs[M].live
            /\ bufs[M].alt = 0
            /\ ~Registered(A)
            /\ ~bufs[A].live
            /\ pipes[bufs[M].pConApi].conApiTarget = M
            /\ pipes[bufs[M].pBufferWriter].writerTarget = M

\* UseMainScreenBuffer has torn down an alt buffer while another screen
\* buffer is registered next to the main buffer
C5_Witness ==
    /\ last.op = "UseMainScreenBuffer"
    /\ last.status = "SUCCESS"
    /\ last.arg[1] # 0
    /\ Len(ScreenBuffers) = 2

\* what ProcessResizeWindow makes of a screen buffer
Geometry(b) == <<b.size, b.viewport, b.text>>

\* C6 (saved resize): ProcessResizeWindow on an alt buffer leaves the size
\* and the viewport of its main buffer as they are and records its pair of
\* client areas on the main buffer, a later pair replacing an earlier one;
\* the next UseMainScreenBuffer on the alt buffer, or UseAlternateScreenBuffer
\* on either of the two, applies ProcessResizeWindow with the recorded pair
\* to the main buffer, once, and leaves no saved resize; without a saved
\* resize they leave the geometry of the main buffer alone, as does
\* UseMainScreenBuffer on the main buffer, which does nothing.
C6_SavedResizeStep ==
    LET id == last'.id
        M == GetMainBuffer(World, id)
    IN  /\ (last'.op = "ProcessResizeWindow" /\ bufs[id].main # 0) =>
              /\ bufs'[M].size = bufs[M].size
              /\ bufs'[M].viewport = bufs[M].viewport
              /\ bufs'[M].fAltWindowChanged
              /\ bufs'[M].rcAltSavedClientNew = last'.arg[1]
              /\ bufs'[M].rcAltSavedClientOld = last'.arg[2]
        /\ (last'.op = "ProcessResizeWindow" /\ bufs[id].main = 0) =>
              bufs'[M].fAltWindowChanged = bufs[M].fAltWindowChanged
        /\ (last'.op = "UseMainScreenBuffer" /\ bufs[id].main = 0) =>
              /\ bufs'[M].fAltWindowChanged = bufs[M].fAltWindowChanged
              /\ Geometry(bufs'[M]) = Geometry(bufs[M])
        /\ (\/ last'.op = "UseMainScreenBuffer" /\ bufs[id].main # 0
            \/ last'.op = "UseAlternateScreenBuffer") =>
              /\ ~bufs'[M].fAltWindowChanged
              /\ Geometry(bufs'[M]) =
                    IF bufs[M].fAltWindowChanged
                    THEN Geometry(ProcessResizeWindow(World, M, bufs[M].rcAltSavedClientNew,
                                                      bufs[M].rcAltSavedClientOld).bufs[M])
                    ELSE Geometry(bufs[M])

C6_SavedResize == [][C6_SavedResizeStep]_vars

\* UseMainScreenBuffer has applied a saved resize that changed the size of
\* the main buffer
C6_Witness ==
    /\ last.op = "UseMainScreenBuffer"
    /\ last.status = "SUCCESS"
    /\ last.arg[1] # 0
    /\ last.arg[3]
    /\ bufs[last.arg[1]].size # InitialSize
    /\ ~bufs[last.arg[1]].fAltWindowChanged

\* C7 (a main buffer takes its alt buffer along): once a main buffer that
\* has an alt buffer is removed from the registry, neither of them is in the
\* registry or live, and the current screen buffer is neither of them.
C7_RemoveMainWithAlt ==
    (last.op = "RemoveScreenBuffer" /\ last.arg[1] # 0) =>
        /\ ~Registered(last.id)
        /\ ~Registered(last.arg[1])
        /\ ~bufs[last.id].live
        /\ ~bufs[last.arg[1]].live
        /\ CurrentScreenBuffer \notin {last.id, last.arg[1]}
        /\ CurrentScreenBuffer # 0 => Registered(CurrentScreenBuffer)

\* a main buffer was removed while its alt buffer was the current screen
\* buffer, and a third screen buffer has become current
C7_Witness ==
    /\ last.op = "RemoveScreenBuffer"
    /\ last.arg[1] # 0
    /\ last.arg[2] = last.arg[1]
    /\ CurrentScreenBuffer # 0

---------------------------------------------------------------------------
(* Properties of the viewport, of the cursor and of the traditional resize *)

\* the viewport of b lies inside its buffer
ViewportInside(b) ==
    /\ 0 <= b.viewport.Left
    /\ b.viewport.Left <= b.viewport.Right
    /\ b.viewport.Right < b.size.X
    /\ 0 <= b.viewport.Top
    /\ b.viewport.Top <= b.viewport.Bottom
    /\ b.viewport.Bottom < b.size.Y

\* C1 (viewport containment): after construction and after every sequence
\* of SetViewportRect, SetViewportOrigin, SetViewportSize,
\* ResizeScreenBuffer and ProcessResizeWindow, the viewport of every live
\* screen buffer satisfies 0 <= Left <= Right < cols and
\* 0 <= Top <= Bottom < rows.
C1_ViewportContainment ==
    \A i \in LiveIds : ViewportInside(bufs[i])

\* SetViewportRect has stored a viewport whose right edge is the column
\* count of the buffer
C1_Witness ==
    /\ last.op = "SetViewportRect"
    /\ bufs[1].live
    /\ bufs[1].viewport.Right = bufs[1].size.X

\* the row the traditional resize keeps at the top of the new buffer, for
\* the cursor and the new size of a resize
TopRowOf(cursor, new) ==
    IF new.Y <= cursor.Y THEN cursor.Y - new.Y + 1 ELSE 0

\* the character and the DBCS byte of logical cell (x, y) of text buffer t
CellAt(t, x, y) ==
    <<GetRowByOffset(t, y).Chars[x + 1], GetRowByOffset(t, y).KAttrs[x + 1]>>

\* the last operation is a successful resize of the screen buffer without
\* reflow, and the buffer before it is remembered
TraditionalResizeDone ==
    /\ last.op = "ResizeScreenBuffer"
    /\ last.status = "SUCCESS"
    /\ ~wrapText
    /\ pre.live

\* C8 (traditional resize preservation): after a successful traditional
\* resize from size old to size new, with topRow = cursor.Y - new.Y + 1
\* when new.Y <= cursor.Y and 0 otherwise, for every x < min(old.X, new.X)
\* and y < min(old.Y, new.Y) the character and the DBCS byte of logical
\* cell (x, y) are those of logical cell (x, y + topRow) before the resize,
\* whatever the first row of the circular row array was.
C8_TraditionalPreservation ==
    TraditionalResizeDone =>
        \A x \in 0..(Min(pre.size.X, last.arg.X) - 1),
           y \in 0..(Min(pre.size.Y, last.arg.Y) - 1) :
            CellAt(bufs[1].text, x, y)
                = CellAt(pre.text, x, y + TopRowOf(pre.text.cursor, last.arg))

\* the preservation of C8 for the resizes of a buffer whose cursor was
\* inside it
TraditionalPreservationInside ==
    (TraditionalResizeDone /\ InsideBuffer(pre.text.cursor, pre.size)) =>
        \A x \in 0..(Min(pre.size.X, last.arg.X) - 1),
           y \in 0..(Min(pre.size.Y, last.arg.Y) - 1) :
            CellAt(bufs[1].text, x, y)
                = CellAt(pre.text, x, y + TopRowOf(pre.text.cursor, last.arg))

\* a traditional resize that changed the width only, of a buffer whose
\* circular row array did not start at its first row and whose rows still
\* held distinct text
C8_Witness ==
    /\ TraditionalResizeDone
    /\ last.arg.X # pre.size.X
    /\ last.arg.Y = pre.size.Y
    /\ pre.text.FirstRow # 0
    /\ CellAt(pre.text, 0, 0) # CellAt(pre.text, 0, 1)
    /\ CellAt(pre.text, 0, 0)[1] # UNICODE_SPACE

\* a traditional resize took the rows away from under a cursor that was
\* inside the buffer
CursorRowRemoved ==
    /\ TraditionalResizeDone
    /\ InsideBuffer(pre.text.cursor, pre.size)
    /\ pre.text.cursor.X < last.arg.X
    /\ last.arg.Y <= pre.text.cursor.Y

\* C9 (traditional resize keeps the cursor cell): when a traditional
\* resize reduces the row count so that new.Y <= cursor.Y, the cursor is at
\* (cursor.X, new.Y - 1) after the resize, on the row that held it.
C9_CursorCellKept ==
    CursorRowRemoved =>
        bufs[1].text.cursor = COORD(pre.text.cursor.X, last.arg.Y - 1)

\* the row that held the cursor is row new.Y - 1 of the resized buffer
C9_Witness ==
    /\ CursorRowRemoved
    /\ \A x \in 0..(Min(pre.size.X, last.arg.X) - 1) :
          CellAt(bufs[1].text, x, last.arg.Y - 1)
              = CellAt(pre.text, x, pre.text.cursor.Y)
    /\ CellAt(pre.text, 0, pre.text.cursor.Y)[1] # UNICODE_SPACE

\* C10 (cursor containment): after every sequence of SetCursorPosition and
\* of traditional or reflowing resizes the cursor satisfies
\* 0 <= cursor.X < cols and 0 <= cursor.Y < rows, and SetCursorPosition
\* answers an out-of-range position with STATUS_INVALID_PARAMETER.
C10_CursorContainment ==
    /\ bufs[1].live => InsideBuffer(bufs[1].text.cursor, bufs[1].size)
    /\ (last.op = "SetCursorPosition" /\ ~InsideBuffer(last.arg, bufs[1].size))
           => last.status = "INVALID_PARAMETER"

\* a resize of the screen buffer has left the cursor below its last row
C10_Witness ==
    /\ last.op = "ResizeScreenBuffer"
    /\ bufs[1].live
    /\ bufs[1].text.cursor.Y >= bufs[1].size.Y

---------------------------------------------------------------------------
(* Properties of the resizes *)

\* C11 (resize failure atomicity): when an allocation fails during a
\* traditional or reflowing resize, the size of the screen buffer, the size
\* the text buffer records, its rows with their cells, its first row and
\* the viewport are what they were before the call.
C11_ResizeFailureAtomic ==
    (last.op = "ResizeScreenBuffer" /\ last.status = "NO_MEMORY" /\ pre.live) =>
        /\ bufs[1].size = pre.size
        /\ bufs[1].viewport = pre.viewport
        /\ bufs[1].text.coordBufferSize = pre.text.coordBufferSize
        /\ bufs[1].text.FirstRow = pre.text.FirstRow
        /\ bufs[1].text.Rows = pre.text.Rows

\* a traditional resize to another width has failed with STATUS_NO_MEMORY
\* in the resize of an attribute row
C11_Witness ==
    /\ last.op = "ResizeScreenBuffer"
    /\ last.status = "NO_MEMORY"
    /\ ~wrapText
    /\ pre.live
    /\ last.arg.X # pre.size.X
    /\ bufs[1].text.coordBufferSize = last.arg
    /\ bufs[1].size = pre.size

\* the last operation is a successful resize of the screen buffer with
\* reflow, and the buffer before it is remembered
ReflowResizeDone ==
    /\ last.op = "ResizeScreenBuffer"
    /\ last.status = "SUCCESS"
    /\ wrapText
    /\ pre.live

\* the end of a logical line in the text read from a buffer
LineBreak == <<0, 0>>

\* the cells of a row that belong to the text: up to its right, or the whole
\* row when it wrapped
RowCells(row) ==
    [c \in 1..ReflowRight(row, Len(row.Chars)) |-> <<row.Chars[c], row.KAttrs[c]>>]

\* the text of rows 0..y of text buffer t followed by the text of row last:
\* the cells of each row, a row that did not wrap ending a logical line
RECURSIVE LinesUpTo(_, _)
LinesUpTo(t, y) ==
    IF y < 0 THEN <<>>
    ELSE LinesUpTo(t, y - 1) \o RowCells(GetRowByOffset(t, y))
            \o (IF GetRowByOffset(t, y).WrapForced THEN <<>> ELSE <<LineBreak>>)

\* the logical lines of text buffer t up to its last non-space character
LogicalLines(t) ==
    LinesUpTo(t, GetLastNonSpaceCharacter(t).Y - 1)
        \o RowCells(GetRowByOffset(t, GetLastNonSpaceCharacter(t).Y))

\* C12 (reflow preservation): after a successful reflowing resize the
\* logical lines read from the new buffer up to its last non-space
\* character are the logical lines read from the old buffer up to its last
\* non-space character.
C12_ReflowPreservation ==
    ReflowResizeDone => LogicalLines(bufs[1].text) = LogicalLines(pre.text)

\* a reflow to another width of text with a wrapped row, after which the
\* logical lines are those of the old buffer
C12_Witness ==
    /\ ReflowResizeDone
    /\ last.arg.X # pre.size.X
    /\ GetRowByOffset(pre.text, 0).WrapForced
    /\ GetRowByOffset(pre.text, 0).Right = pre.size.X
    /\ GetRowByOffset(pre.text, 1).Right > 0
    /\ LogicalLines(bufs[1].text) = LogicalLines(pre.text)

\* the cursor of text buffer t is on a cell of its text, one the reflow
\* copies: on a row up to the last non-space character, before its right
CursorOnText(t) ==
    /\ InsideBuffer(t.cursor, t.coordBufferSize)
    /\ t.cursor.Y <= GetLastNonSpaceCharacter(t).Y
    /\ t.cursor.X < ReflowRight(GetRowByOffset(t, t.cursor.Y), t.coordBufferSize.X)

\* the place of the cursor of t in the logical lines of t: the number of
\* cells and line ends read before its cell
CursorIndex(t) == Len(LinesUpTo(t, t.cursor.Y - 1)) + t.cursor.X

\* C13 (reflow cursor on a glyph): when the cursor is on a cell of the text
\* before a successful reflowing resize, it is afterwards on the cell of
\* the new buffer that received that character, at the same place of the
\* same logical line.
C13_ReflowCursorOnGlyph ==
    (ReflowResizeDone /\ CursorOnText(pre.text)) =>
        /\ InsideBuffer(bufs[1].text.cursor, bufs[1].size)
        /\ CellAt(bufs[1].text, bufs[1].text.cursor.X, bufs[1].text.cursor.Y)
              = CellAt(pre.text, pre.text.cursor.X, pre.text.cursor.Y)
        /\ CursorIndex(bufs[1].text) = CursorIndex(pre.text)

\* a reflow to a smaller width moved the cursor, which was on a character
\* of a wrapped line, to the cell that character went to
C13_Witness ==
    /\ ReflowResizeDone
    /\ CursorOnText(pre.text)
    /\ last.arg.X < pre.size.X
    /\ bufs[1].text.cursor # pre.text.cursor
    /\ CellAt(pre.text, pre.text.cursor.X, pre.text.cursor.Y)[1] # UNICODE_SPACE
    /\ InsideBuffer(bufs[1].text.cursor, bufs[1].size)
    /\ CellAt(bufs[1].text, bufs[1].text.cursor.X, bufs[1].text.cursor.Y)
          = CellAt(pre.text, pre.text.cursor.X, pre.text.cursor.Y)
    /\ CursorIndex(bufs[1].text) = CursorIndex(pre.text)

\* the cursor of text buffer t is past its last non-space character
CursorPastText(t) ==
    /\ InsideBuffer(t.cursor, t.coordBufferSize)
    /\ \/ t.cursor.Y > GetLastNonSpaceCharacter(t).Y
       \/ /\ t.cursor.Y = GetLastNonSpaceCharacter(t).Y
          /\ t.cursor.X > GetLastNonSpaceCharacter(t).X

\* the column offset of the cursor of t from its last non-space character
ColumnOffset(t) == t.cursor.X - GetLastNonSpaceCharacter(t).X

\* the row of the last non-space character of t is soft-wrapped
LastRowWrapped(t) == GetRowByOffset(t, GetLastNonSpaceCharacter(t).Y).WrapForced

\* C14 (reflow cursor past the text): when the cursor is past the last
\* non-space character before a successful reflowing resize, on its row or
\* on a row below it, its column offset from the last non-space character
\* of the new buffer is its old column offset from the old one, up to one
\* column when the old or the new last row is soft-wrapped.
C14_ReflowCursorPastText ==
    (ReflowResizeDone /\ CursorPastText(pre.text)) =>
        IF LastRowWrapped(pre.text) \/ LastRowWrapped(bufs[1].text)
        THEN Abs(ColumnOffset(bufs[1].text) - ColumnOffset(pre.text)) <= 1
        ELSE ColumnOffset(bufs[1].text) = ColumnOffset(pre.text)

\* a reflow to another width of a buffer whose cursor was on the column after
\* the text of its row, and is still
C14_Witness ==
    /\ ReflowResizeDone
    /\ CursorPastText(pre.text)
    /\ last.arg.X # pre.size.X
    /\ pre.text.cursor.Y = GetLastNonSpaceCharacter(pre.text).Y
    /\ GetRowByOffset(pre.text, pre.text.cursor.Y).Right > 0
    /\ ColumnOffset(pre.text) = 1
    /\ ColumnOffset(bufs[1].text) = 1

\* text buffers t and u of one size have the same cells and the same
\* soft-wrap flag in every row
SameText(t, u) ==
    \A y \in 0..(t.coordBufferSize.Y - 1) :
        /\ GetRowByOffset(t, y).WrapForced = GetRowByOffset(u, y).WrapForced
        /\ \A x \in 0..(t.coordBufferSize.X - 1) : CellAt(t, x, y) = CellAt(u, x, y)

\* C15 (reflow to the same size is the identity): a successful reflowing
\* resize to the size the buffer already has leaves every cell, every row's
\* soft-wrap flag and the cursor position as they were.
C15_ReflowSameSizeIdentity ==
    (ReflowResizeDone /\ last.arg = pre.size) =>
        /\ bufs[1].size = pre.size
        /\ SameText(bufs[1].text, pre.text)
        /\ bufs[1].text.cursor = pre.text.cursor

\* a reflow to the same size of a buffer with text in two rows and the
\* cursor on a character, which changed nothing
C15_Witness ==
    /\ ReflowResizeDone
    /\ last.arg = pre.size
    /\ CursorOnText(pre.text)
    /\ GetRowByOffset(pre.text, 0).Right > 0
    /\ GetRowByOffset(pre.text, 1).Right > 0
    /\ SameText(bufs[1].text, pre.text)
    /\ bufs[1].text.cursor = pre.text.cursor

\* the row of the cursor of buffer b within the viewport of b
CursorHeightInViewport(b) == b.text.cursor.Y - b.viewport.Top

\* C16 (reflow keeps the cursor's row in the viewport): after a successful
\* reflowing resize the cursor's row within the viewport, cursor.Y minus
\* viewport.Top, is what it was before the resize.
C16_ReflowCursorHeightKept ==
    ReflowResizeDone => CursorHeightInViewport(bufs[1]) = CursorHeightInViewport(pre)

\* a reflow moved the cursor to another row and the viewport with it
C16_Witness ==
    /\ ReflowResizeDone
    /\ bufs[1].text.cursor.Y # pre.text.cursor.Y
    /\ bufs[1].viewport.Top # pre.viewport.Top
    /\ CursorHeightInViewport(bufs[1]) = CursorHeightInViewport(pre)

---------------------------------------------------------------------------
(* Properties of the tab stops *)

StrictlyIncreasing(tabs) == \A i \in 1..(Len(tabs) - 1) : tabs[i] < tabs[i + 1]

HasTabStop(tabs, sColumn) == \E i \in 1..Len(tabs) : tabs[i] = sColumn

\* C17 (tab order): after any sequence of AddTabStop, ClearTabStop and
\* ClearTabStops from the empty list, the tab stops of the buffer are
\* strictly increasing in column.
C17_TabOrder == \A i \in Ids : bufs[i].live => StrictlyIncreasing(bufs[i].tabs)

\* a stop was linked in between two others
C17_Witness ==
    /\ last.op = "AddTabStop"
    /\ last.status = "SUCCESS"
    /\ Len(bufs[1].tabs) >= 3
    /\ \E i \in 2..(Len(bufs[1].tabs) - 1) : bufs[1].tabs[i] = last.arg.sColumn

\* the call that just returned was AddTabStop
AddTabStopDone == last.op = "AddTabStop"

\* C18 (tab idempotence): AddTabStop at a column that has a stop leaves the
\* list as it was, so that adding a column twice gives the list that adding
\* it once gives, from every list and for every column.
C18_TabIdempotence ==
    /\ (AddTabStopDone /\ HasTabStop(pre.tabs, last.arg.sColumn)) =>
            bufs[1].tabs = pre.tabs
    /\ \A sColumn \in TabColumns :
            AddTabStop(AddTabStop(bufs[1], sColumn, TRUE).buf, sColumn, TRUE).buf.tabs
                = AddTabStop(bufs[1], sColumn, TRUE).buf.tabs

\* AddTabStop was called at a column that had a stop between two others
C18_Witness ==
    /\ AddTabStopDone
    /\ Len(pre.tabs) >= 3
    /\ \E i \in 2..(Len(pre.tabs) - 1) : pre.tabs[i] = last.arg.sColumn
    /\ bufs[1].tabs = pre.tabs

\* C19 (AddTabStop fails only without memory): every call of AddTabStop in
\* which no allocation fails returns success, a call at a column that has a
\* stop included.
C19_AddTabStopStatus ==
    (AddTabStopDone /\ last.arg.fAllocated) => last.status = "SUCCESS"

\* AddTabStop linked a new stop in and returned success
C19_Witness ==
    /\ AddTabStopDone
    /\ last.arg.fAllocated
    /\ ~HasTabStop(pre.tabs, last.arg.sColumn)
    /\ HasTabStop(bufs[1].tabs, last.arg.sColumn)
    /\ last.status = "SUCCESS"

\* the allocation of the call of AddTabStop that just returned failed
AddTabStopAllocationFailed ==
    /\ AddTabStopDone
    /\ ~last.arg.fAllocated
    /\ ~HasTabStop(pre.tabs, last.arg.sColumn)

\* C20 (AddTabStop without memory): when its allocation fails, AddTabStop
\* returns STATUS_NO_MEMORY and the list is what it was before the call,
\* whether the new stop was to be the head or to follow another stop.
C20_AddTabStopNoMemory ==
    AddTabStopAllocationFailed =>
        /\ last.status = "NO_MEMORY"
        /\ bufs[1].tabs = pre.tabs

\* the allocation of a stop that was to follow another one failed and the
\* list was left alone
C20_Witness ==
    /\ AddTabStopAllocationFailed
    /\ pre.tabs # <<>>
    /\ pre.tabs[1] < last.arg.sColumn
    /\ last.status = "NO_MEMORY"
    /\ bufs[1].tabs = pre.tabs

\* the call that just returned was GetForwardTab or GetReverseTab
ForwardTabDone == last.op = "GetForwardTab"

ReverseTabDone == last.op = "GetReverseTab"

\* the stops of the list tabs right of column x, and left of it
StopsAfter(tabs, x) == {tabs[i] : i \in {j \in 1..Len(tabs) : tabs[j] > x}}

StopsBefore(tabs, x) == {tabs[i] : i \in {j \in 1..Len(tabs) : tabs[j] < x}}

SetMin(S) == CHOOSE m \in S : \A n \in S : m <= n

SetMax(S) == CHOOSE m \in S : \A n \in S : m >= n

\* C21 (forward tab): from the last column GetForwardTab returns column 0 of
\* the next row; from any other column it returns, on the same row, the
\* smallest tab stop right of the column, or the last column when there is
\* none; the tab stops are left as they were.
C21_ForwardTab ==
    ForwardTabDone =>
        LET pos == last.arg.cCurrCursorPos
            new == last.arg.cNewCursorPos
            stops == StopsAfter(pre.tabs, pos.X)
        IN  /\ bufs[1].tabs = pre.tabs
            /\ new = IF pos.X = pre.size.X - 1 THEN COORD(0, pos.Y + 1)
                     ELSE IF stops = {} THEN COORD(pre.size.X - 1, pos.Y)
                     ELSE COORD(SetMin(stops), pos.Y)

\* a forward tab from a column that has a stop, with a stop left of it and
\* two right of it, went to the nearer one
C21_Witness ==
    /\ ForwardTabDone
    /\ HasTabStop(pre.tabs, last.arg.cCurrCursorPos.X)
    /\ StopsBefore(pre.tabs, last.arg.cCurrCursorPos.X) # {}
    /\ Cardinality(StopsAfter(pre.tabs, last.arg.cCurrCursorPos.X)) = 2
    /\ last.arg.cNewCursorPos.X = SetMin(StopsAfter(pre.tabs, last.arg.cCurrCursorPos.X))

\* C22 (reverse tab): from column 0, or when no tab stop is left of the
\* column, GetReverseTab returns column 0 of the row; otherwise it returns,
\* on the same row, the greatest tab stop left of the column; the tab stops
\* are left as they were.
C22_ReverseTab ==
    (ReverseTabDone /\ StrictlyIncreasing(pre.tabs)) =>
        LET pos == last.arg.cCurrCursorPos
            new == last.arg.cNewCursorPos
            stops == StopsBefore(pre.tabs, pos.X)
        IN  /\ bufs[1].tabs = pre.tabs
            /\ new = IF pos.X = 0 \/ stops = {} THEN COORD(0, pos.Y)
                     ELSE COORD(SetMax(stops), pos.Y)

\* a reverse tab from a column that has a stop, with two stops left of it,
\* went to the nearer one
C22_Witness ==
    /\ ReverseTabDone
    /\ HasTabStop(pre.tabs, last.arg.cCurrCursorPos.X)
    /\ Cardinality(StopsBefore(pre.tabs, last.arg.cCurrCursorPos.X)) = 2
    /\ last.arg.cNewCursorPos.X = SetMax(StopsBefore(pre.tabs, last.arg.cCurrCursorPos.X))

\* the call that just returned was a resize of buffer 1, by the API or by the
\* window, that succeeded and left the buffer narrower than it was
WidthReduced ==
    /\ last.op \in {"ResizeScreenBuffer", "ProcessResizeWindow"}
    /\ last.id = 1
    /\ last.status = "SUCCESS"
    /\ pre.live
    /\ bufs[1].size.X < pre.size.X

\* C23 (tab stops after a narrowing resize): after any resize that reduces
\* the width of the buffer, directly or through ProcessResizeWindow, no tab
\* stop is at a column at or past the new width.
C23_TabsInsideWidth ==
    WidthReduced => \A i \in 1..Len(bufs[1].tabs) : bufs[1].tabs[i] < bufs[1].size.X

\* a narrowing resize of a buffer whose stops are all inside the new width
C23_Witness ==
    /\ WidthReduced
    /\ bufs[1].tabs # <<>>
    /\ \A i \in 1..Len(bufs[1].tabs) : bufs[1].tabs[i] < bufs[1].size.X

---------------------------------------------------------------------------
(* Properties of the viewport calls and of the window resize *)

\* the call that just returned was SetViewportRect with a rectangle other
\* than the viewport
ViewportRectSet ==
    /\ last.op = "SetViewportRect"
    /\ pre.live
    /\ last.arg # pre.viewport

\* rectangle rc moved right and down until its left and top are not negative
ShiftedInside(rc) ==
    SMALL_RECT(Max(rc.Left, 0), Max(rc.Top, 0),
               IF rc.Left < 0 THEN rc.Right - rc.Left ELSE rc.Right,
               IF rc.Top < 0 THEN rc.Bottom - rc.Top ELSE rc.Bottom)

\* C24 (SetViewportRect clamps): SetViewportRect with a rectangle other than
\* the viewport stores the rectangle with a negative left (top) shifted to 0,
\* its width (height) kept, and then its right clipped to at most cols - 1
\* and its bottom to at most rows - 1.
C24_ViewportRectClamp ==
    ViewportRectSet =>
        LET shifted == ShiftedInside(last.arg)
        IN  bufs[1].viewport = SMALL_RECT(shifted.Left, shifted.Top,
                                          Min(shifted.Right, bufs[1].size.X - 1),
                                          Min(shifted.Bottom, bufs[1].size.Y - 1))

\* a rectangle with negative left and top was stored shifted, at its size
C24_Witness ==
    /\ ViewportRectSet
    /\ last.arg.Left < 0
    /\ last.arg.Top < 0
    /\ bufs[1].viewport = ShiftedInside(last.arg)
    /\ bufs[1].viewport.Right < bufs[1].size.X
    /\ bufs[1].viewport.Bottom < bufs[1].size.Y

\* the call that just returned was SetViewportOrigin
ViewportOriginSet == last.op = "SetViewportOrigin" /\ pre.live

\* the viewport vp moved as a call of SetViewportOrigin with input arg asks
MovedViewport(vp, arg) ==
    LET Left == IF arg.fAbsolute THEN arg.coordWindowOrigin.X
                ELSE vp.Left + arg.coordWindowOrigin.X
        Top == IF arg.fAbsolute THEN arg.coordWindowOrigin.Y
               ELSE vp.Top + arg.coordWindowOrigin.Y
    IN  SMALL_RECT(Left, Top, Left + (vp.Right - vp.Left), Top + (vp.Bottom - vp.Top))

\* rectangle rc has an edge outside the buffer of size size
EdgeOutside(rc, size) ==
    \/ rc.Left < 0 \/ rc.Left >= size.X
    \/ rc.Right < 0 \/ rc.Right >= size.X
    \/ rc.Top < 0 \/ rc.Top >= size.Y
    \/ rc.Bottom < 0 \/ rc.Bottom >= size.Y

\* what C25 asks of the call of SetViewportOrigin that just returned
ViewportOriginAsClaimed ==
    LET moved == MovedViewport(pre.viewport, last.arg)
    IN  IF EdgeOutside(moved, pre.size)
        THEN /\ last.status = "INVALID_PARAMETER"
             /\ bufs[1].viewport = pre.viewport
        ELSE last.arg.active \/ (/\ last.status = "SUCCESS"
                                 /\ bufs[1].viewport = moved)

\* C25 (SetViewportOrigin): an absolute or relative SetViewportOrigin
\* returns STATUS_INVALID_PARAMETER and leaves the viewport alone whenever
\* the moved rectangle has an edge outside the buffer; otherwise, on a
\* buffer that is not active, it returns success and the viewport is the
\* rectangle moved to the requested origin, at its width and height.
C25_ViewportOrigin == ViewportOriginSet => ViewportOriginAsClaimed

\* the same for the calls made while the viewport lies inside the buffer
ViewportOriginFromInside ==
    (ViewportOriginSet /\ ViewportInside(pre)) => ViewportOriginAsClaimed

\* a viewport narrower than the buffer that is not active was moved right
C25_Witness ==
    /\ ViewportOriginSet
    /\ ~last.arg.active
    /\ last.status = "SUCCESS"
    /\ bufs[1].viewport.Left = pre.viewport.Left + 1
    /\ bufs[1].viewport = MovedViewport(pre.viewport, last.arg)

\* the call that just returned was ProcessResizeWindow on buffer 1, which
\* kept the size of the buffer
WindowResizedViewport ==
    /\ last.op = "ProcessResizeWindow"
    /\ last.id = 1
    /\ pre.live
    /\ bufs[1].size = pre.size

\* the edges C26 names for a window resized from client area rcOld to rcNew
FromLeft(rcNew, rcOld) == rcNew.left # rcOld.left /\ rcNew.right = rcOld.right

FromTop(rcNew, rcOld) == rcNew.top # rcOld.top /\ rcNew.bottom = rcOld.bottom

\* C26 (edge of the viewport that follows a drag): ProcessResizeWindow
\* resizes the viewport from its left edge exactly when only the left edge
\* of the client area moved, and from its top edge exactly when only the top
\* edge moved; otherwise from the right and from the bottom.
C26_ResizeEdge ==
    WindowResizedViewport =>
        bufs[1].viewport =
            _InternalSetViewportSize(pre, _CalculateViewportSize(pre, last.arg[1]),
                                     FromTop(last.arg[1], last.arg[2]),
                                     FromLeft(last.arg[1], last.arg[2])).viewport

\* only the left edge of the window was dragged, over a viewport that was
\* not at the left of its buffer
C26_Witness ==
    /\ WindowResizedViewport
    /\ FromLeft(last.arg[1], last.arg[2])
    /\ ~FromTop(last.arg[1], last.arg[2])
    /\ last.arg[1].top = last.arg[2].top
    /\ pre.viewport.Left > 0
    /\ pre.viewport.Top > 0
    /\ CalcWindowSizeX(bufs[1].viewport) # CalcWindowSizeX(pre.viewport)

\* the call that just returned was ProcessResizeWindow on an alt buffer
AltWindowResized ==
    /\ last.op = "ProcessResizeWindow"
    /\ last.id \in Ids
    /\ bufs[last.id].live
    /\ _IsAltBuffer(bufs[last.id])
    /\ bufs[bufs[last.id].main].live

\* C27 (an alt buffer has the size of the window): after ProcessResizeWindow
\* on an alt buffer the size of the alt buffer is, in both dimensions, the
\* character grid that fits the new client area, after every sequence of
\* window resizes.
C27_AltBufferSize ==
    AltWindowResized => bufs[last.id].size = AdjustedBufferSize(World, last.id, last.arg[1])

\* the window was resized over an alt buffer, which took the size of the
\* new client area, another size than its main buffer has
C27_Witness ==
    /\ AltWindowResized
    /\ bufs[last.id].size = AdjustedBufferSize(World, last.id, last.arg[1])
    /\ bufs[last.id].size # bufs[bufs[last.id].main].size

---------------------------------------------------------------------------
(* Properties of the geometry *)

\* the geometry of a window resize has just been computed
GeometryDone == last.op = "Geometry"

\* a client area holds at least one character of a font beside both scroll
\* bars
HoldsOneCharacter(rcClient, coordFontSize) ==
    /\ RECT_WIDTH(rcClient) >= coordFontSize.X + g_sVerticalScrollSize
    /\ RECT_HEIGHT(rcClient) >= coordFontSize.Y + g_sHorizontalScrollSize

\* what C28 asks of the geometry just computed
GeometryConverged ==
    /\ last.arg.result.vis3 = last.arg.result.vis2
    /\ last.arg.result.viewport = last.arg.result.chars2
    /\ last.arg.result.viewport.X = last.arg.result.final.X

\* C28 (geometry convergence): on a wrap-text main buffer, for every client
\* area, font and old buffer size, the geometry computed for the buffer
\* size the adjustment has chosen gives the scroll bars and the character
\* counts of the second pass, and the viewport is as wide as the buffer.
C28_GeometryConvergence ==
    (GeometryDone /\ last.arg.fWrapText) => GeometryConverged

\* the same for client areas that hold at least one character
GeometryConvergenceOfCells ==
    (/\ GeometryDone
     /\ last.arg.fWrapText
     /\ HoldsOneCharacter(last.arg.rcClientNew, last.arg.coordFontSize)) => GeometryConverged

\* the first pass reserved room for scroll bars that the second pass did not
\* need, the buffer grew, and the geometry of the grown buffer is that of
\* the second pass
C28_Witness ==
    /\ GeometryDone
    /\ last.arg.fWrapText
    /\ last.arg.result.chars1 # last.arg.result.chars2
    /\ last.arg.result.final # last.arg.coordBufferSizeOld
    /\ GeometryConverged

\* C30 (character counts of a window resize): the column and row counts
\* ProcessResizeWindow derives from the client area are at least 1 where it
\* passes them on, as the new buffer size to ResizeScreenBuffer and as the
\* viewport size to the resize of the viewport, for every client area.
C30_CountsAtLeastOne ==
    GeometryDone =>
        /\ last.arg.result.new # last.arg.coordBufferSizeOld =>
                (last.arg.result.new.X >= 1 /\ last.arg.result.new.Y >= 1)
        /\ last.arg.result.viewport.X >= 1
        /\ last.arg.result.viewport.Y >= 1

\* a client area too small for a character beside both scroll bars gave a
\* new buffer size and a viewport size of at least one column and one row
C30_Witness ==
    /\ GeometryDone
    /\ ~HoldsOneCharacter(last.arg.rcClientNew, last.arg.coordFontSize)
    /\ last.arg.result.new # last.arg.coordBufferSizeOld
    /\ last.arg.result.new.X >= 1 /\ last.arg.result.new.Y >= 1
    /\ last.arg.result.viewport.X >= 1 /\ last.arg.result.viewport.Y >= 1

---------------------------------------------------------------------------
(* Properties of the cursor's visibility, of clipping and of the viewport's *)
(* size                                                                     *)

\* the rectangle lies in the buffer of the given size
RectInside(rc, size) ==
    /\ 0 <= rc.Left /\ rc.Left <= rc.Right /\ rc.Right < size.X
    /\ 0 <= rc.Top /\ rc.Top <= rc.Bottom /\ rc.Bottom < size.Y

\* the position lies in the rectangle
PositionInside(pos, rc) ==
    /\ rc.Left <= pos.X /\ pos.X <= rc.Right
    /\ rc.Top <= pos.Y /\ pos.Y <= rc.Bottom

\* MakeCursorVisible was called for a viewport that lay in the buffer
CursorMadeVisible ==
    /\ last.op = "MakeCursorVisible"
    /\ pre.live
    /\ RectInside(pre.viewport, pre.size)

\* d is the offset of the smallest size that brings p between lo + d and
\* hi + d
SmallestOffset(d, p, lo, hi) ==
    /\ lo + d <= p /\ p <= hi + d
    /\ \A e \in (0 - MaxCols - MaxRows)..(MaxCols + MaxRows) :
            (lo + e <= p /\ p <= hi + e) => Abs(d) <= Abs(e)

ResizedViewport == bufs[last.id].viewport

\* C32 (assertions of processResizeWindow): on return from ProcessResizeWindow
\* the viewport's top is not negative, its top is less than its bottom and
\* its left is less than its right.
C32_ResizeAssertions ==
    (last.op = "ProcessResizeWindow" /\ bufs[last.id].live) =>
        /\ ResizedViewport.Top >= 0
        /\ ResizedViewport.Top < ResizedViewport.Bottom
        /\ ResizedViewport.Left < ResizedViewport.Right

\* the window was resized to a client area that holds one character beside
\* the scroll bars, and the viewport is that one character
C32_Witness ==
    /\ last.op = "ProcessResizeWindow"
    /\ bufs[last.id].live
    /\ ResizedViewport.Top >= 0 /\ ResizedViewport.Left >= 0
    /\ ResizedViewport.Top = ResizedViewport.Bottom
    /\ ResizedViewport.Left = ResizedViewport.Right

\* a rectangle was clipped
RectClipped == last.op = "ClipToScreenBuffer"

\* a position was clipped
CoordClipped == last.op = "ClipToScreenBufferCoord"

\* C33 (clipToScreenBuffer): the clipped rectangle has left and right in
\* [0, cols - 1] and top and bottom in [0, rows - 1], the clipped position
\* has x in [0, cols - 1] and y in [0, rows - 1], and clipping twice gives
\* what clipping once gives.
C33_ClipToScreenBuffer ==
    /\ RectClipped =>
            /\ InsideBuffer(COORD(last.arg.once.Left, last.arg.once.Top), pre.size)
            /\ InsideBuffer(COORD(last.arg.once.Right, last.arg.once.Bottom), pre.size)
            /\ last.arg.twice = last.arg.once
    /\ CoordClipped =>
            /\ InsideBuffer(last.arg.once, pre.size)
            /\ last.arg.twice = last.arg.once

\* what holds of every clipped rectangle: its left and top are not negative,
\* its right and bottom are not past the buffer's edges, and clipping twice
\* gives what clipping once gives; every clipped position is in the buffer
C33_ClipOneSided ==
    /\ RectClipped =>
            /\ last.arg.once.Left >= 0 /\ last.arg.once.Top >= 0
            /\ last.arg.once.Right <= pre.size.X - 1
            /\ last.arg.once.Bottom <= pre.size.Y - 1
            /\ last.arg.twice = last.arg.once
    /\ CoordClipped =>
            /\ InsideBuffer(last.arg.once, pre.size)
            /\ last.arg.twice = last.arg.once

\* a rectangle right of the buffer was clipped, and its left edge is still
\* right of the buffer
C33_Witness ==
    /\ RectClipped
    /\ last.arg.srClip.Left >= pre.size.X
    /\ last.arg.srClip.Left <= last.arg.srClip.Right
    /\ last.arg.once.Left >= pre.size.X

\* the viewport of a buffer that contained it was resized to a size the
\* buffer holds
ViewportResized ==
    /\ last.op = "_InternalSetViewportSize"
    /\ pre.live
    /\ RectInside(pre.viewport, pre.size)
    /\ 1 <= last.arg.coordSize.X /\ last.arg.coordSize.X <= pre.size.X
    /\ 1 <= last.arg.coordSize.Y /\ last.arg.coordSize.Y <= pre.size.Y

---------------------------------------------------------------------------
(* Properties of the scroll bars *)

\* the pixels of the buffer of the last geometry, after its resize
BufferPixels ==
    COORD(last.arg.result.final.X * last.arg.coordFontSize.X,
          last.arg.result.final.Y * last.arg.coordFontSize.Y)

\* the pixels of the client area of the last geometry
ClientPixels ==
    COORD(RECT_WIDTH(last.arg.rcClientNew), RECT_HEIGHT(last.arg.rcClientNew))

---------------------------------------------------------------------------
(* Properties of destroyed buffers and of the registry *)

\* UseAlternateScreenBuffer was called on an alt buffer and went on to replace it
AltReplacedItself ==
    /\ last.op = "UseAlternateScreenBuffer"
    /\ last.status = "SUCCESS"
    /\ last.arg[2] = last.id

\* C36 (no use after removal): no operation reads or writes a field of a
\* screen buffer after that buffer has been removed from the registry and
\* destroyed, UseAlternateScreenBuffer invoked on an alt buffer included.
C36_NoUseAfterRemoval == uaf = FALSE

\* a destroyed buffer is used by no other operation than
\* UseAlternateScreenBuffer on an alt buffer, and by every such call
C36_UseAfterRemovalOnlyOnAlt == uaf <=> AltReplacedItself

\* UseAlternateScreenBuffer on an alt buffer removed that buffer and read its
\* fields afterwards
C36_Witness ==
    /\ AltReplacedItself
    /\ ~bufs[last.id].live
    /\ uaf

\* a registered buffer was removed from the registry
BufferRemoved == last.op = "RemoveScreenBuffer"

\* the removed buffer and, where it had one, its alt buffer
RemovedWithAlt == {last.id} \cup (IF last.arg[1] # 0 THEN {last.arg[1]} ELSE {})

\* the registry before the removal without the buffers of the set gone
RegistryWithout(gone) == SelectSeq(last.arg[3], LAMBDA x : x \notin gone)

\* the current-buffer reference after a removal that took the buffers of
\* the set gone out of the registry: the head of the registry, or none for
\* the empty registry, when the current buffer was removed, and the current
\* buffer otherwise
CurrentAfterRemoval(gone) ==
    /\ CurrentScreenBuffer \notin gone
    /\ IF last.arg[2] \in gone
       THEN CurrentScreenBuffer = (IF ScreenBuffers = <<>> THEN 0 ELSE Head(ScreenBuffers))
       ELSE CurrentScreenBuffer = last.arg[2]

\* C37 (registry removal), as stated: after s_RemoveScreenBuffer(b) for a
\* registered buffer b, b is not in the registry, every other registered
\* buffer is still in the registry in the same relative order, and the
\* current-buffer reference is not b: if b was current it is the registry
\* head, or empty when the registry is empty.
C37_RegistryRemovalOnlyOfBuffer ==
    BufferRemoved =>
        /\ ScreenBuffers = RegistryWithout({last.id})
        /\ CurrentScreenBuffer # last.id
        /\ last.arg[2] = last.id =>
                CurrentScreenBuffer = (IF ScreenBuffers = <<>> THEN 0 ELSE Head(ScreenBuffers))

\* C37 (registry removal), amended: after s_RemoveScreenBuffer(b), b and
\* the alt buffer of b are not in the registry, every other registered
\* buffer is still in the registry in the same relative order, and the
\* current-buffer reference is neither b nor its alt: if one of them was
\* current it is the registry head, or empty when the registry is empty,
\* and otherwise it is the buffer it was.
C37_RegistryRemoval ==
    BufferRemoved =>
        /\ ScreenBuffers = RegistryWithout(RemovedWithAlt)
        /\ CurrentAfterRemoval(RemovedWithAlt)

\* the current buffer, which was not the head of a registry of three, was
\* removed, and the head is the current buffer
C37_Witness ==
    /\ BufferRemoved
    /\ Len(last.arg[3]) = 3
    /\ last.arg[2] = last.id
    /\ Head(last.arg[3]) # last.id
    /\ Len(ScreenBuffers) = 2
    /\ CurrentScreenBuffer = Head(ScreenBuffers)

---------------------------------------------------------------------------
(* Properties of the cursor's visibility and of the scroll-bar updates *)

\* the window was resized for a buffer that is remembered
WindowResizedKept ==
    /\ last.op = "ProcessResizeWindow"
    /\ pre.live
    /\ bufs[last.id].live

\* C38 (cursor visibility across processResizeWindow): the cursor is as
\* visible after ProcessResizeWindow as it was before: hidden when it was
\* hidden, also across a resize of the backing buffer, and visible when it
\* was visible.
C38_CursorVisibilityKept ==
    WindowResizedKept =>
        bufs[last.id].text.cursorVisible = pre.text.cursorVisible

\* what holds: a window resize that leaves the buffer's size alone leaves the
\* cursor's visibility alone, and a visible cursor is visible afterwards
C38_CursorVisibilityUnlessResized ==
    WindowResizedKept =>
        /\ bufs[last.id].size = pre.size =>
                bufs[last.id].text.cursorVisible = pre.text.cursorVisible
        /\ pre.text.cursorVisible => bufs[last.id].text.cursorVisible

\* a hidden cursor is visible after a window resize that changed the size of
\* the backing buffer
C38_Witness ==
    /\ WindowResizedKept
    /\ ~pre.text.cursorVisible
    /\ bufs[last.id].size # pre.size
    /\ bufs[last.id].text.cursorVisible

\* no more than one update is outstanding, and the flag is set only while
\* one is
OneUpdateOutstanding ==
    /\ scrollMsgs <= 1
    /\ updatingScrollBars => scrollMsgs = 1

\* the step is a resize of the first buffer that got as far as its call of
\* UpdateScrollBars
ResizeUpdatesScrollBars ==
    /\ last'.op = "ResizeScreenBuffer"
    /\ last'.status = "SUCCESS"

\* a buffer that is not active posts nothing, and nothing is posted while an
\* update is outstanding
PostsNoMore ==
    (ResizeUpdatesScrollBars /\ (CurrentScreenBuffer # 1 \/ scrollMsgs = 1)) =>
        scrollMsgs' = scrollMsgs

\* the active buffer of a console with a window posts when no update is
\* outstanding
PostsAgain ==
    (ResizeUpdatesScrollBars /\ CurrentScreenBuffer = 1 /\ scrollMsgs = 0 /\ pWindow) =>
        scrollMsgs' = 1

\* C39 (one scroll-bar update outstanding): at most one update message is
\* outstanding at any time; between a posted update and its processing
\* further UpdateScrollBars calls post nothing; a buffer that is not active
\* never posts; once the pending update has been processed a later
\* UpdateScrollBars on the active buffer posts again, and the updating flag
\* does not stay set with no message outstanding.
C39_OneScrollBarUpdate ==
    /\ []OneUpdateOutstanding
    /\ [][PostsNoMore /\ PostsAgain]_vars

\* what holds: at most one update is outstanding, the flag is set while one
\* is, and a buffer that is not active or that finds an update outstanding
\* posts nothing
C39_AtMostOneUpdate ==
    /\ [](scrollMsgs <= 1 /\ (scrollMsgs = 1 => updatingScrollBars))
    /\ [][PostsNoMore]_vars

\* the console has a window and no update is outstanding, and the resize of
\* the active buffer found the flag set and posted nothing
C39_Witness ==
    /\ last.op = "ResizeScreenBuffer"
    /\ last.status = "SUCCESS"
    /\ CurrentScreenBuffer = 1
    /\ pWindow
    /\ updatingScrollBars
    /\ scrollMsgs = 0

====
